---------------------------- MODULE Spec2Model ----------------------------
(***************************************************************************)
(* The real-time chat hub of mystic_chat-backend (app/ws/server.ts):       *)
(* connection lifecycle, topic subscription index, multi-device presence,  *)
(* delivered/read acknowledgements and the heartbeat monitor.              *)
(*                                                                         *)
(* One action is one run of the event loop: an inbound frame handled up    *)
(* to its first await, the continuation of a suspended handler, a socket   *)
(* event (close, error, pong) or a heartbeat sweep.                        *)
(***************************************************************************)
EXTENDS Integers, Sequences, FiniteSets, TLC

\* ------------------------------------------------------------------ bounds
MaxConn == 2
MaxTasks == 2
MaxCount == 2

\* ------------------------------------------------------------- value domains
Conns == 1..MaxConn

Users == {"u1", "u2"}
NoUser == "none"

\* the tokens a client may present: two that verify, one whose payload
\* carries no id, one whose signature does not verify
Tokens == {"tok_u1", "tok_u2", "tok_noid", "tok_bad"}
Throws == "throws"

\* chat ids a client may name: x and y exist, nf is well formed but not in
\* the store, bad is not a valid object id
ChatIds == {"x", "y", "nf", "bad"}
NoChat == "-"
StoredChats == {"x", "y"}
ChatMembers == [x |-> {"u1", "u2"}, y |-> {"u2"}]

\* the stored messages: m1, m3 and m4 are in chat x, m2 in chat y; m4 was
\* sent by u1, the others by u2
MsgIds == {"m1", "m2", "m3", "m4"}
NoMsg == "-"
MsgChat == [m1 |-> "x", m2 |-> "y", m3 |-> "x", m4 |-> "x"]
MsgSender == [m1 |-> "u2", m2 |-> "u2", m3 |-> "u2", m4 |-> "u1"]

Kinds == {"delivered", "read"}

VARIABLES
  rs,             \* readyState of each socket: NEW (not yet accepted), OPEN, CLOSING, CLOSED
  userId,         \* socket.userId (NoUser = undefined)
  isAlive,        \* socket.isAlive
  subs,           \* socket.subs
  delivered,      \* socket.delivered
  read,           \* socket.read
  chatSubs,       \* Map chatId -> Set<socket>; DOMAIN chatSubs = the keys of the map
  userConnCount,  \* Map userId -> number; DOMAIN userConnCount = the keys of the map
  deliveredTo,    \* Message.deliveredTo of each stored message
  readBy,         \* Message.readBy of each stored message
  tasks,          \* the set of handlers suspended on an await
  out,            \* the frames written to sockets by the last step, in order
  calls,          \* the hub-level calls of the last step: broadcasts, publishes, store writes
  last,           \* the input the last step handled
  fin,            \* number of runs of finalizeDisconnect per socket
  dec,            \* number of setOffline calls made by finalizeDisconnect per socket
  term,           \* why the socket left OPEN
  acks,           \* completed single-ack writes+publishes, counted per <<socket, kind, chat, message>>
  members,        \* Chat.members of each stored chat, as the chat collaborator holds it
  sweeps,         \* heartbeat sweeps each socket has seen since its connection or its last pong
  shutdown,       \* the process's unhandledRejection handler has run
  recording,      \* whether the run keeps the two logs below
  pubs,           \* the publish calls made so far, in call order: chat id and event
  inbox           \* per socket, the publish calls (as indices of pubs) whose frame was
                  \* written to it, in the order of the writes

vars == <<rs, userId, isAlive, subs, delivered, read, chatSubs, userConnCount,
          deliveredTo, readBy, tasks, out, calls, last, fin, dec, term, acks,
          members, sweeps, shutdown, recording, pubs, inbox>>

\* ------------------------------------------------------------------ records
Ev(type, chat, msg, user, ids, text) ==
  [type |-> type, chat |-> chat, msg |-> msg, user |-> user, ids |-> ids, text |-> text]

Absent == "absent"

\* an inbound frame as the client wrote it; a field it lacks is Absent
Raw(type, token, chatId, messageId) ==
  [type |-> type, token |-> token, chatId |-> chatId, messageId |-> messageId]

NoRaw == Raw("-", Absent, Absent, Absent)

\* the input of a step: a frame, the resumption or rejection of a suspended
\* handler (raw = the frame it handles), or a socket or timer event
In(kind, c, raw) == [kind |-> kind, conn |-> c, raw |-> raw]

\* a handler suspended on an await: its socket, the frame it handles, the
\* user id its pending collaborator call was built with, the await it is at
\* (dup tells two suspended handlers of identical frames apart)
Task(c, type, chat, msg, user, stage, ids) ==
  [c |-> c, type |-> type, chat |-> chat, msg |-> msg, user |-> user,
   stage |-> stage, ids |-> ids, dup |-> 1]

\* the mutable hub state a handler works on, as one record
Cur ==
  [rs |-> rs, userId |-> userId, isAlive |-> isAlive, subs |-> subs,
   delivered |-> delivered, read |-> read, chatSubs |-> chatSubs,
   userConnCount |-> userConnCount, deliveredTo |-> deliveredTo, readBy |-> readBy,
   out |-> <<>>, calls |-> <<>>, dec |-> dec, members |-> members, sweeps |-> sweeps,
   shutdown |-> shutdown, recording |-> recording, pubs |-> pubs, inbox |-> inbox]

Commit(S) ==
  /\ rs' = S.rs
  /\ userId' = S.userId
  /\ isAlive' = S.isAlive
  /\ subs' = S.subs
  /\ delivered' = S.delivered
  /\ read' = S.read
  /\ chatSubs' = S.chatSubs
  /\ userConnCount' = S.userConnCount
  /\ deliveredTo' = S.deliveredTo
  /\ readBy' = S.readBy
  /\ out' = S.out
  /\ calls' = S.calls
  /\ dec' = S.dec
  /\ members' = S.members
  /\ sweeps' = S.sweeps
  /\ shutdown' = S.shutdown
  /\ recording' = S.recording
  /\ pubs' = S.pubs
  /\ inbox' = S.inbox

\* ------------------------------------------------------------------ helpers
\* wss.clients: a socket is a client from its connection until its close event
Clients(S) == {c \in Conns : S.rs[c] \in {"OPEN", "CLOSING"}}

sendJson(S, c, e) ==
  IF S.rs[c] # "OPEN" THEN S
  ELSE [S EXCEPT !.out = Append(@, [to |-> c, ev |-> e])]

RECURSIVE SendEach(_, _, _)
SendEach(S, cs, e) ==
  IF cs = {} THEN S
  ELSE LET c == CHOOSE k \in cs : \A j \in cs : k <= j
       IN SendEach([S EXCEPT !.out = Append(@, [to |-> c, ev |-> e])], cs \ {c}, e)

broadcastAll(S, e) ==
  SendEach([S EXCEPT !.calls = Append(@, [op |-> "broadcastAll", ev |-> e])],
           {c \in Clients(S) : S.rs[c] = "OPEN"}, e)

subscribe(S, c, x) ==
  [S EXCEPT !.subs[c] = @ \cup {x},
            !.chatSubs = [k \in DOMAIN S.chatSubs \cup {x} |->
                             IF k = x
                             THEN (IF x \in DOMAIN S.chatSubs THEN S.chatSubs[x] ELSE {}) \cup {c}
                             ELSE S.chatSubs[k]]]

\* an unsubscribe that forgets the socket's own set
unsubscribeIndexOnly(S, c, x) ==
  IF x \notin DOMAIN S.chatSubs THEN S
  ELSE LET set == S.chatSubs[x] \ {c} IN
       IF set = {}
       THEN [S EXCEPT !.chatSubs = [k \in DOMAIN S.chatSubs \ {x} |-> S.chatSubs[k]]]
       ELSE [S EXCEPT !.chatSubs[x] = set]

\* an unsubscribe that keeps the key of a topic whose last subscriber went
unsubscribeKeepsKey(S, c, x) ==
  LET S1 == [S EXCEPT !.subs[c] = @ \ {x}] IN
  IF x \notin DOMAIN S.chatSubs THEN S1
  ELSE [S1 EXCEPT !.chatSubs[x] = @ \ {c}]

unsubscribe(S, c, x) ==
  LET S1 == [S EXCEPT !.subs[c] = @ \ {x}] IN
  IF x \notin DOMAIN S.chatSubs THEN S1
  ELSE LET set == S.chatSubs[x] \ {c} IN
       IF set = {}
       THEN [S1 EXCEPT !.chatSubs = [k \in DOMAIN S.chatSubs \ {x} |-> S.chatSubs[k]]]
       ELSE [S1 EXCEPT !.chatSubs[x] = set]

RECURSIVE UnsubscribeEach(_, _, _)
UnsubscribeEach(S, c, xs) ==
  IF xs = {} THEN S
  ELSE LET x == CHOOSE k \in xs : TRUE
       IN UnsubscribeEach(unsubscribe(S, c, x), c, xs \ {x})

cleanupSocket(S, c) ==
  LET S1 == UnsubscribeEach(S, c, S.subs[c]) IN [S1 EXCEPT !.subs[c] = {}]

\* the longest log of publish calls kept
MaxLog == 4

\* a transport that puts a new frame in front of the frames written before
RecordNewestFirst(S, x, e, cs) ==
  IF ~S.recording \/ Len(S.pubs) >= MaxLog THEN S
  ELSE [S EXCEPT !.pubs = Append(@, [chat |-> x, ev |-> e]),
                 !.inbox = [c \in Conns |-> IF c \in cs THEN <<Len(S.pubs) + 1>> \o @[c]
                                             ELSE @[c]]]

\* the log of one publish or broadcast call for chat x: the call, and for
\* each socket of cs the frame client.send writes after the frames written
\* to it before
Record(S, x, e, cs) ==
  IF ~S.recording \/ Len(S.pubs) >= MaxLog THEN S
  ELSE [S EXCEPT !.pubs = Append(@, [chat |-> x, ev |-> e]),
                 !.inbox = [c \in Conns |-> IF c \in cs THEN Append(@[c], Len(S.pubs) + 1)
                                             ELSE @[c]]]

\* a publishToChat that writes to every subscriber, whatever its readyState
publishToChatAnyState(S, x, e) ==
  LET S1 == [S EXCEPT !.calls = Append(@, [op |-> "publishToChat", ev |-> e])] IN
  IF x \notin DOMAIN S.chatSubs THEN Record(S1, x, e, {})
  ELSE Record(SendEach(S1, S.chatSubs[x], e), x, e, S.chatSubs[x])

publishToChat(S, x, e) ==
  LET S1 == [S EXCEPT !.calls = Append(@, [op |-> "publishToChat", ev |-> e])] IN
  IF x \notin DOMAIN S.chatSubs THEN Record(S1, x, e, {})
  ELSE LET cs == {c \in S.chatSubs[x] : S.rs[c] = "OPEN"}
       IN Record(SendEach(S1, cs, e), x, e, cs)

\* a publishToChatExcept that skips nobody
publishToChatExceptNobody(S, x, exceptUserId, e) ==
  LET S1 == [S EXCEPT !.calls = Append(@, [op |-> "publishToChatExcept", ev |-> e])] IN
  IF x \notin DOMAIN S.chatSubs THEN S1
  ELSE SendEach(S1, {c \in S.chatSubs[x] : S.rs[c] = "OPEN"}, e)

publishToChatExcept(S, x, exceptUserId, e) ==
  LET S1 == [S EXCEPT !.calls = Append(@, [op |-> "publishToChatExcept", ev |-> e])] IN
  IF x \notin DOMAIN S.chatSubs THEN Record(S1, x, e, {})
  ELSE LET cs == {c \in S.chatSubs[x] : /\ S.rs[c] = "OPEN"
                                        /\ S.userId[c] # NoUser
                                        /\ S.userId[c] # exceptUserId}
       IN Record(SendEach(S1, cs, e), x, e, cs)

\* jwt.verify and the id lookup in the payload
verifyJwt(token) ==
  CASE token = "tok_u1" -> "u1"
    [] token = "tok_u2" -> "u2"
    [] token = "tok_noid" -> Throws
    [] OTHER -> Throws

Count(S, u) == IF u \in DOMAIN S.userConnCount THEN S.userConnCount[u] ELSE 0

setOnline(S, u) ==
  LET n == Count(S, u) + 1
      S1 == [S EXCEPT !.userConnCount =
                [k \in DOMAIN S.userConnCount \cup {u} |->
                    IF k = u THEN n ELSE S.userConnCount[k]]]
  IN IF n = 1
     THEN broadcastAll(S1, Ev("presence_online", NoChat, NoMsg, u, {}, ""))
     ELSE S1

\* a query object that is built and dropped: with no await, then, exec or
\* callback the query is never sent to the store, so no write is made
QueryDropped(S, e) == [S EXCEPT !.calls = Append(@, [op |-> "query", ev |-> e])]

\* a setOffline that stores whatever the subtraction gives
setOfflineUnclamped(S, u) ==
  LET n == Count(S, u) - 1
      S1 == [S EXCEPT !.userConnCount =
                [k \in DOMAIN S.userConnCount \cup {u} |->
                    IF k = u THEN n ELSE S.userConnCount[k]]]
  IN IF n = 0
     THEN QueryDropped(broadcastAll(S1, Ev("presence_offline", NoChat, NoMsg, u, {}, "")),
                       Ev("lastSeenAt", NoChat, NoMsg, u, {}, ""))
     ELSE S1

setOffline(S, u) ==
  LET n == Count(S, u) - 1 IN
  IF n <= 0
  THEN LET S1 == [S EXCEPT !.userConnCount =
                     [k \in DOMAIN S.userConnCount \ {u} |-> S.userConnCount[k]]]
           S2 == broadcastAll(S1, Ev("presence_offline", NoChat, NoMsg, u, {}, ""))
       IN QueryDropped(S2, Ev("lastSeenAt", NoChat, NoMsg, u, {}, ""))
  ELSE [S EXCEPT !.userConnCount[u] = n]

sendPresenceSnapshot(S, c) ==
  sendJson(S, c, Ev("presence_state", NoChat, NoMsg, NoUser, DOMAIN S.userConnCount, ""))

finalizeDisconnect(S, c) ==
  LET uid == S.userId[c]
      S1 == cleanupSocket(S, c)
  IN IF uid # NoUser
     THEN [setOffline(S1, uid) EXCEPT !.dec[c] = @ + 1]
     ELSE S1

\* socket.terminate(): the transport is destroyed, the close event follows later
terminate(S, c) ==
  IF S.rs[c] = "OPEN" THEN [S EXCEPT !.rs[c] = "CLOSING"] ELSE S

\* ------------------------------------------------------------------- state
InitHub ==
  /\ rs = [c \in Conns |-> "NEW"]
  /\ userId = [c \in Conns |-> NoUser]
  /\ isAlive = [c \in Conns |-> FALSE]
  /\ subs = [c \in Conns |-> {}]
  /\ delivered = [c \in Conns |-> {}]
  /\ read = [c \in Conns |-> {}]
  /\ chatSubs = <<>>
  /\ userConnCount = <<>>
  /\ deliveredTo = [m \in MsgIds |-> {}]
  /\ readBy = [m \in MsgIds |-> {}]
  /\ tasks = {}
  /\ out = <<>>
  /\ calls = <<>>
  /\ last = In("init", 0, NoRaw)
  /\ fin = [c \in Conns |-> 0]
  /\ dec = [c \in Conns |-> 0]
  /\ term = [c \in Conns |-> "-"]
  /\ acks = <<>>
  /\ members = ChatMembers
  /\ sweeps = [c \in Conns |-> 0]
  /\ shutdown = FALSE
  /\ pubs = <<>>
  /\ inbox = [c \in Conns |-> <<>>]

Init == InitHub /\ recording = FALSE

\* the same initial state, in a run that logs its publish calls
InitRecording == InitHub /\ recording = TRUE

\* ---------------------------------------------------------- inbound frames
ChatFrameTypes == {"join_chat", "leave_chat", "ack_delivered_all", "ack_read_all",
                   "typing_start", "typing_stop"}
AckFrameTypes == {"ack_delivered", "ack_read"}

WellFormed ==
  {Raw("auth", t, Absent, Absent) : t \in Tokens}
    \cup {Raw(ty, Absent, x, Absent) : ty \in ChatFrameTypes, x \in ChatIds}
    \cup {Raw(ty, Absent, x, m) : ty \in AckFrameTypes, x \in ChatIds, m \in MsgIds}

\* frames that are not JSON, name no known type, or lack a required field
Malformed ==
  {Raw("notjson", Absent, Absent, Absent),
   Raw("bogus", Absent, "x", Absent),
   Raw("auth", Absent, Absent, Absent),
   Raw("join_chat", Absent, Absent, Absent),
   Raw("ack_read", Absent, "x", Absent)}

RawFrames == WellFormed \cup Malformed

\* the null parseClientEvent returns for a rejected frame
Null == Raw("null", Absent, Absent, Absent)

\* a parser that looks at the type only and lets a frame through whatever
\* fields it carries
parseClientEventTypeOnly(raw) ==
  IF raw.type \in {"auth"} \cup ChatFrameTypes \cup AckFrameTypes THEN raw ELSE Null

parseClientEvent(raw) ==
  CASE raw.type = "notjson" -> Null
    [] raw.type = "auth" /\ raw.token # Absent -> raw
    [] raw.type \in {"join_chat", "leave_chat"} /\ raw.chatId # Absent -> raw
    [] raw.type \in AckFrameTypes /\ raw.chatId # Absent /\ raw.messageId # Absent -> raw
    [] raw.type \in {"ack_delivered_all", "ack_read_all"} /\ raw.chatId # Absent -> raw
    [] raw.type \in {"typing_start", "typing_stop"} /\ raw.chatId # Absent -> raw
    [] OTHER -> Null

Parsed(raw, types) == parseClientEvent(raw) # Null /\ raw.type \in types

InFrame(c, raw) == In("frame", c, raw)

\* Types.ObjectId.isValid
IsValidObjectId(x) == x # "bad"

\* a dispatcher without the guard
NeverBlocked(c) == FALSE

\* the guard of the message handler: the socket has no bound user
NotAuthenticated(c) == userId[c] = NoUser

\* a membership test that lets every user in
isMemberAlways(x, uid) == TRUE

isMember(x, uid) == uid \in members[x]

\* a subscription test that lets every ack through
mustBeSubscribedAlways(S, c, x) == TRUE

mustBeSubscribed(S, c, x) == x \in S.subs[c]

Twin(t) == [t EXCEPT !.dup = 2]

\* room for one more suspended handler
CanSuspend(t) == Cardinality(tasks) < MaxTasks /\ Twin(t) \notin tasks

Suspend(t) == tasks' = tasks \cup {IF t \in tasks THEN Twin(t) ELSE t}
Finish(t) == tasks' = tasks \ {t}

KindOf(type) == IF type \in {"ack_delivered", "ack_delivered_all"} THEN "delivered" ELSE "read"

\* ------------------------------------------------------------------ actions
\* wss.on("connection")
Connect(c) ==
  /\ rs[c] = "NEW"
  /\ \A k \in Conns : k < c => rs[k] # "NEW"
  /\ LET S1 == [Cur EXCEPT !.rs[c] = "OPEN", !.isAlive[c] = TRUE, !.subs[c] = {},
                           !.delivered[c] = {}, !.read[c] = {}, !.sweeps[c] = 0]
     IN Commit(sendJson(S1, c, Ev("welcome", NoChat, NoMsg, NoUser, {}, "welcome to mystChats")))
  /\ last' = In("connection", c, NoRaw)
  /\ UNCHANGED <<tasks, fin, term, acks>>

\* a frame parseClientEvent rejects
RecvMalformed(c, raw) ==
  /\ rs[c] = "OPEN"
  /\ parseClientEvent(raw) = Null
  /\ Commit(Cur)
  /\ last' = InFrame(c, raw)
  /\ UNCHANGED <<tasks, fin, term, acks>>

\* an auth branch that answers auth_ok before it sends the snapshot
AuthOkBeforeSnapshot(S, c, id) ==
  LET S1 == IF S.userId[c] # NoUser /\ S.userId[c] # id
            THEN setOffline(S, S.userId[c]) ELSE S
      S2 == [S1 EXCEPT !.userId[c] = id]
      S3 == sendJson(S2, c, Ev("auth_ok", NoChat, NoMsg, id, {}, ""))
      S4 == sendPresenceSnapshot(S3, c)
  IN setOnline(S4, id)

AuthOk(S, c, id) ==
  LET S1 == IF S.userId[c] # NoUser /\ S.userId[c] # id
            THEN setOffline(S, S.userId[c]) ELSE S
      S2 == [S1 EXCEPT !.userId[c] = id]
      S3 == sendPresenceSnapshot(S2, c)
      S4 == setOnline(S3, id)
  IN sendJson(S4, c, Ev("auth_ok", NoChat, NoMsg, id, {}, ""))

\* a failed auth that is answered but leaves the socket open
AuthFailStaysOpen(S, c) ==
  sendJson(S, c, Ev("auth_error", NoChat, NoMsg, NoUser, {}, "Auth failed"))

\* the catch of the auth branch ("Auth failed" stands for the text of the
\* error, e.message, or the literal when the error has none)
AuthFail(S, c) ==
  terminate(sendJson(S, c, Ev("auth_error", NoChat, NoMsg, NoUser, {}, "Auth failed")), c)

RecvAuth(c, raw) ==
  /\ rs[c] = "OPEN"
  /\ Parsed(raw, {"auth"})
  /\ LET id == verifyJwt(raw.token) IN
     IF id = Throws
     THEN /\ Commit(AuthFail(Cur, c))
          /\ term' = [term EXCEPT ![c] = "auth_fail"]
     ELSE /\ Count(Cur, id) < MaxCount
          /\ Commit(AuthOk(Cur, c, id))
          /\ term' = term
  /\ last' = InFrame(c, raw)
  /\ UNCHANGED <<tasks, fin, acks>>

\* the unauthenticated branch answered without ending the connection
RejectUnauthenticatedStaysOpen(S, c) ==
  sendJson(S, c, Ev("auth_error", NoChat, NoMsg, NoUser, {}, "Authenticate first"))

RejectUnauthenticated(S, c) ==
  terminate(sendJson(S, c, Ev("auth_error", NoChat, NoMsg, NoUser, {}, "Authenticate first")), c)

\* any parsed frame other than auth on a socket without a user
RecvUnauthenticated(c, raw) ==
  /\ rs[c] = "OPEN"
  /\ Parsed(raw, ChatFrameTypes \cup AckFrameTypes)
  /\ NotAuthenticated(c)
  /\ Commit(RejectUnauthenticated(Cur, c))
  /\ term' = [term EXCEPT ![c] = "policy"]
  /\ last' = InFrame(c, raw)
  /\ UNCHANGED <<tasks, fin, acks>>

RecvJoin(c, raw) ==
  /\ rs[c] = "OPEN"
  /\ Parsed(raw, {"join_chat"})
  /\ ~NotAuthenticated(c)
  /\ IF ~IsValidObjectId(raw.chatId)
     THEN /\ Commit(sendJson(Cur, c, Ev("join_denied", raw.chatId, NoMsg, NoUser, {},
                                        "Invalid chatId")))
          /\ tasks' = tasks
     ELSE /\ CanSuspend(Task(c, "join_chat", raw.chatId, NoMsg, NoUser, "lookup", {}))
          /\ Commit(Cur)
          /\ Suspend(Task(c, "join_chat", raw.chatId, NoMsg, NoUser, "lookup", {}))
  /\ last' = InFrame(c, raw)
  /\ UNCHANGED <<fin, term, acks>>

\* a join that subscribes without looking at the members
JoinFoundUnchecked(S, c, x) ==
  sendJson(subscribe(S, c, x), c, Ev("joined_chat", x, NoMsg, NoUser, {}, ""))

JoinFound(S, c, x) ==
  IF ~isMember(x, S.userId[c])
  THEN sendJson(S, c, Ev("join_denied", x, NoMsg, NoUser, {}, "Not a chat member"))
  ELSE sendJson(subscribe(S, c, x), c, Ev("joined_chat", x, NoMsg, NoUser, {}, ""))

\* Chat.findById resolves and the join handler runs to its end
JoinResume(t) ==
  /\ t.type = "join_chat"
  /\ LET c == t.c
         x == t.chat
     IN /\ IF x \notin StoredChats
           THEN Commit(sendJson(Cur, c, Ev("join_denied", x, NoMsg, NoUser, {}, "Chat not found")))
           ELSE Commit(JoinFound(Cur, c, x))
        /\ last' = In("resume", c, Raw(t.type, Absent, t.chat, Absent))
  /\ Finish(t)
  /\ UNCHANGED <<fin, term, acks>>

\* a leave_chat that answers only a socket that was subscribed
RecvLeaveIfSubscribed(c, raw) ==
  /\ rs[c] = "OPEN"
  /\ Parsed(raw, {"leave_chat"})
  /\ ~NotAuthenticated(c)
  /\ IF raw.chatId \in subs[c]
     THEN Commit(sendJson(unsubscribe(Cur, c, raw.chatId), c,
                          Ev("left_chat", raw.chatId, NoMsg, NoUser, {}, "")))
     ELSE Commit(Cur)
  /\ last' = InFrame(c, raw)
  /\ UNCHANGED <<tasks, fin, term, acks>>

RecvLeave(c, raw) ==
  /\ rs[c] = "OPEN"
  /\ Parsed(raw, {"leave_chat"})
  /\ ~NotAuthenticated(c)
  /\ Commit(sendJson(unsubscribe(Cur, c, raw.chatId), c,
                     Ev("left_chat", raw.chatId, NoMsg, NoUser, {}, "")))
  /\ last' = InFrame(c, raw)
  /\ UNCHANGED <<tasks, fin, term, acks>>

Seen(S, c, kind) == IF kind = "delivered" THEN S.delivered[c] ELSE S.read[c]

\* a dedup mark that one kind of ack leaves in the sets of both kinds
MarkSeenBoth(S, c, kind, key) ==
  [S EXCEPT !.delivered[c] = @ \cup {key}, !.read[c] = @ \cup {key}]

MarkSeen(S, c, kind, key) ==
  IF kind = "delivered"
  THEN [S EXCEPT !.delivered[c] = @ \cup {key}]
  ELSE [S EXCEPT !.read[c] = @ \cup {key}]

\* $addToSet of a user on the deliveredTo / readBy of the messages ids
AddToSet(S, kind, ids, uid) ==
  IF kind = "delivered"
  THEN [S EXCEPT !.deliveredTo = [m \in MsgIds |-> IF m \in ids THEN @[m] \cup {uid} ELSE @[m]]]
  ELSE [S EXCEPT !.readBy = [m \in MsgIds |-> IF m \in ids THEN @[m] \cup {uid} ELSE @[m]]]

AckedBy(S, kind, m) == IF kind = "delivered" THEN S.deliveredTo[m] ELSE S.readBy[m]

\* the count of acks for key k (absent keys count 0), and one more of them
\* (the count saturates at 2: the properties only tell 0, 1 and more apart)
AckCount(k) == IF k \in DOMAIN acks THEN acks[k] ELSE 0

Counted(k) ==
  [j \in DOMAIN acks \cup {k} |->
     IF j = k THEN (IF AckCount(k) < 2 THEN AckCount(k) + 1 ELSE AckCount(k)) ELSE acks[j]]

\* a single ack without the dedup test
AckAlwaysFresh(S, c, kind, key) == TRUE

\* the dedup test of a single ack
AckFresh(S, c, kind, key) == key \notin Seen(S, c, kind)

\* ack_delivered / ack_read up to the await of Message.updateOne
RecvAck(c, raw) ==
  /\ rs[c] = "OPEN"
  /\ Parsed(raw, AckFrameTypes)
  /\ ~NotAuthenticated(c)
  /\ LET kind == KindOf(raw.type)
         key == <<raw.chatId, raw.messageId>>
     IN IF mustBeSubscribed(Cur, c, raw.chatId) /\ AckFresh(Cur, c, kind, key)
        THEN /\ CanSuspend(Task(c, raw.type, raw.chatId, raw.messageId, userId[c], "write", {}))
             /\ Commit(MarkSeen(Cur, c, kind, key))
             /\ Suspend(Task(c, raw.type, raw.chatId, raw.messageId, userId[c], "write", {}))
        ELSE /\ Commit(Cur)
             /\ tasks' = tasks
  /\ last' = InFrame(c, raw)
  /\ UNCHANGED <<fin, term, acks>>

AckPublish(S, c, type, x, m) ==
  publishToChat(S, x, Ev(IF type = "ack_delivered" THEN "message_delivered" ELSE "message_read",
                         x, m, S.userId[c], {}, ""))

\* a single ack that is given up when its socket is no longer open
AckResumeIfOpen(t, ok) ==
  /\ t.type \in AckFrameTypes
  /\ LET kind == KindOf(t.type)
         S1 == [Cur EXCEPT !.calls = Append(@, [op |-> IF ok THEN "updateOne" ELSE "updateOneFailed",
                                                ev |-> Ev(kind, t.chat, t.msg, t.user, {}, "")])]
         S2 == IF ok THEN AddToSet(S1, kind, {t.msg}, t.user) ELSE S1
     IN /\ Commit(IF rs[t.c] = "OPEN" THEN AckPublish(S2, t.c, t.type, t.chat, t.msg) ELSE Cur)
        /\ acks' = Counted(<<t.c, kind, t.chat, t.msg>>)
        /\ last' = In("resume", t.c, Raw(t.type, Absent, t.chat, IF t.msg = NoMsg THEN Absent ELSE t.msg))
  /\ Finish(t)
  /\ UNCHANGED <<fin, term>>

\* a single ack whose handling ends when the write fails
AckResumeAbortsOnFailure(t, ok) ==
  /\ t.type \in AckFrameTypes
  /\ LET kind == KindOf(t.type)
         S1 == [Cur EXCEPT !.calls = Append(@, [op |-> IF ok THEN "updateOne" ELSE "updateOneFailed",
                                                ev |-> Ev(kind, t.chat, t.msg, t.user, {}, "")])]
         S2 == IF ok THEN AddToSet(S1, kind, {t.msg}, t.user) ELSE S1
     IN /\ Commit(IF ok THEN AckPublish(S2, t.c, t.type, t.chat, t.msg) ELSE S2)
        /\ acks' = Counted(<<t.c, kind, t.chat, t.msg>>)
        /\ last' = In("resume", t.c, Raw(t.type, Absent, t.chat, IF t.msg = NoMsg THEN Absent ELSE t.msg))
  /\ Finish(t)
  /\ UNCHANGED <<fin, term>>

\* Message.updateOne settles (a rejection is swallowed by .catch) and the
\* handler publishes
AckResume(t, ok) ==
  /\ t.type \in AckFrameTypes
  /\ LET kind == KindOf(t.type)
         S1 == [Cur EXCEPT !.calls = Append(@, [op |-> IF ok THEN "updateOne" ELSE "updateOneFailed",
                                                ev |-> Ev(kind, t.chat, t.msg, t.user, {}, "")])]
         S2 == IF ok THEN AddToSet(S1, kind, {t.msg}, t.user) ELSE S1
     IN /\ Commit(AckPublish(S2, t.c, t.type, t.chat, t.msg))
        /\ acks' = Counted(<<t.c, kind, t.chat, t.msg>>)
        /\ last' = In("resume", t.c, Raw(t.type, Absent, t.chat, IF t.msg = NoMsg THEN Absent ELSE t.msg))
  /\ Finish(t)
  /\ UNCHANGED <<fin, term>>

\* ack_delivered_all / ack_read_all up to the await of Message.find
RecvAckAll(c, raw) ==
  /\ rs[c] = "OPEN"
  /\ Parsed(raw, {"ack_delivered_all", "ack_read_all"})
  /\ ~NotAuthenticated(c)
  /\ IF mustBeSubscribed(Cur, c, raw.chatId)
     THEN /\ CanSuspend(Task(c, raw.type, raw.chatId, NoMsg, userId[c], "query", {}))
          /\ Suspend(Task(c, raw.type, raw.chatId, NoMsg, userId[c], "query", {}))
     ELSE tasks' = tasks
  /\ Commit(Cur)
  /\ last' = InFrame(c, raw)
  /\ UNCHANGED <<fin, term, acks>>

\* a query without the filter on the sender
UnackedAnySender(S, kind, x, uid) ==
  {m \in MsgIds : MsgChat[m] = x /\ uid \notin AckedBy(S, kind, m)}

Unacked(S, kind, x, uid) ==
  {m \in MsgIds : MsgChat[m] = x /\ MsgSender[m] # uid /\ uid \notin AckedBy(S, kind, m)}

\* Message.find resolves; with a non-empty result the handler suspends again
\* on Message.updateMany
AckAllQueried(t) ==
  /\ t.type \in {"ack_delivered_all", "ack_read_all"}
  /\ t.stage = "query"
  /\ LET ids == Unacked(Cur, KindOf(t.type), t.chat, t.user)
         w == Task(t.c, t.type, t.chat, NoMsg, userId[t.c], "write", ids)
     IN /\ ids # {} => Twin(w) \notin tasks
        /\ tasks' = IF ids = {} THEN tasks \ {t}
                    ELSE (tasks \ {t}) \cup {IF w \in tasks THEN Twin(w) ELSE w}
        /\ last' = In("resume", t.c, Raw(t.type, Absent, t.chat, IF t.msg = NoMsg THEN Absent ELSE t.msg))
  /\ Commit(Cur)
  /\ UNCHANGED <<fin, term, acks>>

\* Message.updateMany resolves and the handler publishes the batched event
AckAllWritten(t) ==
  /\ t.type \in {"ack_delivered_all", "ack_read_all"}
  /\ t.stage = "write"
  /\ LET kind == KindOf(t.type)
         S1 == [Cur EXCEPT !.calls = Append(@, [op |-> "updateMany",
                                                ev |-> Ev(kind, t.chat, NoMsg, t.user, t.ids, "")])]
         S2 == AddToSet(S1, kind, t.ids, t.user)
     IN /\ Commit(publishToChat(S2, t.chat,
                    Ev(IF kind = "delivered" THEN "messages_delivered" ELSE "messages_read",
                       t.chat, NoMsg, userId[t.c], t.ids, "")))
        /\ last' = In("resume", t.c, Raw(t.type, Absent, t.chat, IF t.msg = NoMsg THEN Absent ELSE t.msg))
  /\ Finish(t)
  /\ UNCHANGED <<fin, term, acks>>

\* process.on("unhandledRejection"): the error is logged and server.close
\* is called, with process.exit(1) as its callback
unhandledRejection(S) == [S EXCEPT !.shutdown = TRUE]

\* a collaborator call that is not caught rejects: nothing after the await
\* runs, and the promise of the async function rejects with nobody
\* handling it (the message listener's and broadcastChatUpdated's promises
\* are dropped by their callers)
Reject(t) ==
  /\ t.type \notin AckFrameTypes
  /\ Commit(unhandledRejection(Cur))
  /\ last' = In("reject", t.c, Raw(t.type, Absent, t.chat, Absent))
  /\ Finish(t)
  /\ UNCHANGED <<fin, term, acks>>

RecvTyping(c, raw) ==
  /\ rs[c] = "OPEN"
  /\ Parsed(raw, {"typing_start", "typing_stop"})
  /\ ~NotAuthenticated(c)
  /\ IF mustBeSubscribed(Cur, c, raw.chatId)
     THEN Commit(publishToChatExcept(Cur, raw.chatId, userId[c],
                                     Ev(raw.type, raw.chatId, NoMsg, userId[c], {}, "")))
     ELSE Commit(Cur)
  /\ last' = InFrame(c, raw)
  /\ UNCHANGED <<tasks, fin, term, acks>>

\* socket.on("pong")
Pong(c) ==
  /\ rs[c] = "OPEN"
  /\ Commit([Cur EXCEPT !.isAlive[c] = TRUE, !.sweeps[c] = 0])
  /\ last' = In("pong", c, NoRaw)
  /\ UNCHANGED <<tasks, fin, term, acks>>

\* the largest number of sweeps told apart
MaxSweeps == 2

\* a sweep that pings every client and terminates none
sweepPingsOnly(S) ==
  [S EXCEPT !.isAlive = [c \in Conns |-> IF c \in Clients(S) THEN FALSE ELSE S.isAlive[c]],
            !.calls = Append(@, [op |-> "ping",
                                 ev |-> Ev("ping", NoChat, NoMsg, NoUser, Clients(S), "")]),
            !.sweeps = [c \in Conns |-> IF c \in Clients(S) /\ S.sweeps[c] < MaxSweeps
                                        THEN S.sweeps[c] + 1 ELSE S.sweeps[c]]]

\* one sweep of the heartbeat interval over wss.clients: a client whose flag
\* is false is terminated, every other one has its flag cleared and is pinged
\* (ev.ids of the ping call = the sockets pinged)
sweep(S) ==
  [S EXCEPT !.rs = [c \in Conns |-> IF c \in Clients(S) /\ ~S.isAlive[c]
                                    THEN terminate(S, c).rs[c] ELSE S.rs[c]],
            !.isAlive = [c \in Conns |-> IF c \in Clients(S) THEN FALSE ELSE S.isAlive[c]],
            !.calls = Append(@, [op |-> "ping",
                                 ev |-> Ev("ping", NoChat, NoMsg, NoUser,
                                           {c \in Clients(S) : S.isAlive[c]}, "")]),
            !.sweeps = [c \in Conns |-> IF c \in Clients(S) /\ S.sweeps[c] < MaxSweeps
                                        THEN S.sweeps[c] + 1 ELSE S.sweeps[c]]]

Heartbeat ==
  /\ Clients(Cur) # {}
  /\ Commit(sweep(Cur))
  /\ term' = [c \in Conns |-> IF rs[c] = "OPEN" /\ ~isAlive[c] THEN "heartbeat" ELSE term[c]]
  /\ last' = In("heartbeat", 0, NoRaw)
  /\ UNCHANGED <<tasks, fin, acks>>

\* socket.on("error"): the library closes the socket and then reports the
\* error; the close event follows
SocketError(c) ==
  /\ rs[c] = "OPEN"
  /\ Commit(finalizeDisconnect([Cur EXCEPT !.rs[c] = "CLOSING"], c))
  /\ fin' = [fin EXCEPT ![c] = @ + 1]
  /\ term' = [term EXCEPT ![c] = "error"]
  /\ last' = In("error", c, NoRaw)
  /\ UNCHANGED <<tasks, acks>>

\* socket.on("close"): after a close by the peer, a terminate() or an error
SocketClose(c) ==
  /\ rs[c] \in {"OPEN", "CLOSING"}
  /\ Commit(finalizeDisconnect([Cur EXCEPT !.rs[c] = "CLOSED"], c))
  /\ fin' = [fin EXCEPT ![c] = @ + 1]
  /\ term' = [term EXCEPT ![c] = IF @ = "-" THEN "close" ELSE @]
  /\ last' = In("close", c, NoRaw)
  /\ UNCHANGED <<tasks, acks>>

\* ------------------------------------------- calls of the REST collaborator
\* the open sockets bound to one of the users ms
Eligible(S, ms) ==
  {c \in Clients(S) : S.rs[c] = "OPEN" /\ S.userId[c] # NoUser /\ S.userId[c] \in ms}

\* a broadcastChatCreated that publishes to the chat's topic
broadcastChatCreatedToTopic(S, x, ms) ==
  publishToChat(S, x, Ev("chat_created", x, NoMsg, NoUser, ms, ""))

\* broadcastChatCreated(chat): chat.members = ms (ev.ids carries them)
broadcastChatCreated(S, x, ms) ==
  LET e == Ev("chat_created", x, NoMsg, NoUser, ms, "")
  IN SendEach([S EXCEPT !.calls = Append(@, [op |-> "broadcastChatCreated", ev |-> e])],
              Eligible(S, ms), e)

ChatCreated(x, ms) ==
  /\ Commit(broadcastChatCreated(Cur, x, ms))
  /\ last' = In("api", 0, Raw("chat_created", Absent, x, Absent))
  /\ UNCHANGED <<tasks, fin, term, acks>>

\* a broadcastMessageCreated that delivers to the chat's members
broadcastMessageCreatedToMembers(S, x, m, u) ==
  LET e == Ev("message_sent", x, m, u, {}, "")
  IN SendEach([S EXCEPT !.calls = Append(@, [op |-> "publishToChat", ev |-> e])],
              IF x \in StoredChats THEN Eligible(S, S.members[x]) ELSE {}, e)

\* broadcastMessageCreated(message) of message m of user u in chat x
broadcastMessageCreated(S, x, m, u) ==
  publishToChat(S, x, Ev("message_sent", x, m, u, {}, ""))

MessageCreated(x, m) ==
  /\ Commit(broadcastMessageCreated(Cur, x, m, MsgSender[m]))
  /\ last' = In("api", 0, Raw("message_sent", Absent, x, m))
  /\ UNCHANGED <<tasks, fin, term, acks>>

\* broadcastChatUpdated(payload) up to await Chat.findById; the suspended
\* call remembers in ids which sockets were eligible when it was made
ChatUpdated(x) ==
  /\ x # "bad"
  /\ LET t == Task(0, "chat_updated", x, NoMsg, NoUser, "lookup",
                   IF x \in StoredChats THEN Eligible(Cur, members[x]) ELSE {})
     IN CanSuspend(t) /\ Suspend(t)
  /\ Commit(Cur)
  /\ last' = In("api", 0, Raw("chat_updated", Absent, x, Absent))
  /\ UNCHANGED <<fin, term, acks>>

\* a broadcastChatUpdated that delivers to the sockets eligible at the call
UpdatedRecipientsAtCall(S, t) == t.ids

\* the sockets broadcastChatUpdated delivers to: by the members the lookup
\* returned and the clients as they are then
UpdatedRecipients(S, t) == Eligible(S, S.members[t.chat])

\* Chat.findById resolves and broadcastChatUpdated runs to its end (the call
\* logged carries in ev.ids the sockets that were eligible when it was made)
ChatUpdatedResume(t) ==
  /\ t.type = "chat_updated"
  /\ LET S1 == [Cur EXCEPT !.calls = Append(@, [op |-> "broadcastChatUpdated",
                    ev |-> Ev("chat_updated", t.chat, t.msg, NoUser, t.ids, "")])]
         e == Ev("chat_updated", t.chat, t.msg, NoUser, {}, "")
     IN IF t.chat \notin StoredChats
        THEN Commit(S1)
        ELSE Commit(Record(SendEach(S1, UpdatedRecipients(S1, t), e),
                           t.chat, e, UpdatedRecipients(S1, t)))
  /\ last' = In("resume", 0, Raw("chat_updated", Absent, t.chat, Absent))
  /\ Finish(t)
  /\ UNCHANGED <<fin, term, acks>>

\* sendMessage of the REST collaborator for message m of chat x, after its
\* writes: broadcastMessageCreated, then broadcastChatUpdated with m as
\* lastMessage, which is not awaited and suspends on Chat.findById
SendMessage(x, m) ==
  /\ x \in StoredChats /\ MsgChat[m] = x
  /\ LET t == Task(0, "chat_updated", x, m, NoUser, "lookup", Eligible(Cur, members[x]))
     IN CanSuspend(t) /\ Suspend(t)
  /\ Commit(broadcastMessageCreated(Cur, x, m, MsgSender[m]))
  /\ last' = In("api", 0, Raw("send_message", Absent, x, m))
  /\ UNCHANGED <<fin, term, acks>>

\* the REST collaborator adds members to a stored chat ($addToSet)
MembersAdded(x, ms) ==
  /\ x \in StoredChats
  /\ ~(ms \subseteq members[x])
  /\ Commit([Cur EXCEPT !.members[x] = @ \cup ms])
  /\ last' = In("store", 0, Raw("members", Absent, x, Absent))
  /\ UNCHANGED <<tasks, fin, term, acks>>

Next ==
  \/ \E c \in Conns : Connect(c)
  \/ \E c \in Conns, raw \in RawFrames : RecvMalformed(c, raw)
  \/ \E c \in Conns, raw \in RawFrames : RecvAuth(c, raw)
  \/ \E c \in Conns, raw \in RawFrames : RecvUnauthenticated(c, raw)
  \/ \E c \in Conns, raw \in RawFrames : RecvJoin(c, raw)
  \/ \E t \in tasks : JoinResume(t)
  \/ \E c \in Conns, raw \in RawFrames : RecvLeave(c, raw)
  \/ \E c \in Conns, raw \in RawFrames : RecvAck(c, raw)
  \/ \E t \in tasks, ok \in BOOLEAN : AckResume(t, ok)
  \/ \E c \in Conns, raw \in RawFrames : RecvAckAll(c, raw)
  \/ \E t \in tasks : AckAllQueried(t)
  \/ \E t \in tasks : AckAllWritten(t)
  \/ \E t \in tasks : Reject(t)
  \/ \E c \in Conns, raw \in RawFrames : RecvTyping(c, raw)
  \/ \E c \in Conns : Pong(c)
  \/ Heartbeat
  \/ \E c \in Conns : SocketError(c)
  \/ \E c \in Conns : SocketClose(c)
  \/ \E x \in ChatIds, ms \in SUBSET Users : ChatCreated(x, ms)
  \/ \E x \in ChatIds, m \in MsgIds : MessageCreated(x, m)
  \/ \E x \in ChatIds : ChatUpdated(x)
  \/ \E x \in ChatIds, m \in MsgIds : SendMessage(x, m)
  \/ \E t \in tasks : ChatUpdatedResume(t)
  \/ \E x \in ChatIds, ms \in SUBSET Users : MembersAdded(x, ms)

Spec == Init /\ [][Next]_vars


\* ------------------------------------------------ focused specifications
\* Each one is the hub restricted to the operations and the frames one group
\* of properties is about; Spec above is the hub with all of them.
AuthFrames(ts) == {Raw("auth", t, Absent, Absent) : t \in ts}
ChatFrames(tys, xs) == {Raw(ty, Absent, x, Absent) : ty \in tys, x \in xs}
MsgFrames(tys, xs, ms) == {Raw(ty, Absent, x, m) : ty \in tys, x \in xs, m \in ms}

\* presence: authentication, re-authentication and every way to disconnect
PresenceFrames == AuthFrames(Tokens) \cup ChatFrames({"leave_chat"}, {"x"})

NextPresence ==
  \/ \E c \in Conns : Connect(c)
  \/ \E c \in Conns, raw \in PresenceFrames : RecvAuth(c, raw)
  \/ \E c \in Conns, raw \in PresenceFrames : RecvUnauthenticated(c, raw)
  \/ \E c \in Conns : Pong(c)
  \/ Heartbeat
  \/ \E c \in Conns : SocketError(c)
  \/ \E c \in Conns : SocketClose(c)

SpecPresence == Init /\ [][NextPresence]_vars

\* subscriptions: join, leave and disconnects around the membership lookup
SubsFrames ==
  AuthFrames({"tok_u2"}) \cup ChatFrames({"join_chat", "leave_chat"}, {"x", "y"})

NextSubs ==
  \/ \E c \in Conns : Connect(c)
  \/ \E c \in Conns, raw \in SubsFrames : RecvAuth(c, raw)
  \/ \E c \in Conns, raw \in SubsFrames : RecvJoin(c, raw)
  \/ \E t \in tasks : JoinResume(t)
  \/ \E c \in Conns, raw \in SubsFrames : RecvLeave(c, raw)
  \/ \E c \in Conns : Pong(c)
  \/ Heartbeat
  \/ \E c \in Conns : SocketError(c)
  \/ \E c \in Conns : SocketClose(c)

SpecSubs == Init /\ [][NextSubs]_vars

\* the outcomes of join_chat
JoinFrames ==
  AuthFrames({"tok_u1", "tok_u2"}) \cup ChatFrames({"join_chat"}, ChatIds)

NextJoin ==
  \/ \E c \in Conns : Connect(c)
  \/ \E c \in Conns, raw \in JoinFrames : RecvAuth(c, raw)
  \/ \E c \in Conns, raw \in JoinFrames : RecvUnauthenticated(c, raw)
  \/ \E c \in Conns, raw \in JoinFrames : RecvJoin(c, raw)
  \/ \E t \in tasks : JoinResume(t)
  \/ \E t \in tasks : Reject(t)
  \/ \E c \in Conns : SocketClose(c)

SpecJoin == Init /\ [][NextJoin]_vars

\* single acknowledgements on one chat
AckSpecFrames ==
  AuthFrames({"tok_u1"}) \cup ChatFrames({"join_chat", "leave_chat"}, {"x"})
    \cup MsgFrames(AckFrameTypes, {"x"}, {"m1"})

NextAck ==
  \/ \E c \in Conns : Connect(c)
  \/ \E c \in Conns, raw \in AckSpecFrames : RecvAuth(c, raw)
  \/ \E c \in Conns, raw \in AckSpecFrames : RecvJoin(c, raw)
  \/ \E t \in tasks : JoinResume(t)
  \/ \E c \in Conns, raw \in AckSpecFrames : RecvLeave(c, raw)
  \/ \E c \in Conns, raw \in AckSpecFrames : RecvAck(c, raw)
  \/ \E t \in tasks, ok \in BOOLEAN : AckResume(t, ok)
  \/ \E c \in Conns : SocketClose(c)

SpecAck == Init /\ [][NextAck]_vars

\* the dispatcher: every frame shape, before and after authentication
GuardFrames ==
  AuthFrames({"tok_u1", "tok_bad"}) \cup ChatFrames(ChatFrameTypes, {"x"})
    \cup MsgFrames(AckFrameTypes, {"x"}, {"m1"}) \cup Malformed

NextGuard ==
  \/ \E c \in Conns : Connect(c)
  \/ \E c \in Conns, raw \in GuardFrames : RecvMalformed(c, raw)
  \/ \E c \in Conns, raw \in GuardFrames : RecvAuth(c, raw)
  \/ \E c \in Conns, raw \in GuardFrames : RecvUnauthenticated(c, raw)
  \/ \E c \in Conns, raw \in GuardFrames : RecvJoin(c, raw)
  \/ \E t \in tasks : JoinResume(t)
  \/ \E c \in Conns, raw \in GuardFrames : RecvLeave(c, raw)
  \/ \E c \in Conns : SocketClose(c)

SpecGuard == Init /\ [][NextGuard]_vars


\* the REST collaborator's calls: chat created, message created, chat
\* updated, around joins, added members and disconnects
ApiFrames == AuthFrames({"tok_u1", "tok_u2"}) \cup ChatFrames({"join_chat"}, {"x"})

NextApi ==
  \/ \E c \in Conns : Connect(c)
  \/ \E c \in Conns, raw \in ApiFrames : RecvAuth(c, raw)
  \/ \E c \in Conns, raw \in ApiFrames : RecvJoin(c, raw)
  \/ \E t \in tasks : JoinResume(t)
  \/ \E ms \in SUBSET Users : ChatCreated("x", ms)
  \/ MessageCreated("x", "m1")
  \/ \E x \in {"y", "nf"} : ChatUpdated(x)
  \/ \E t \in tasks : ChatUpdatedResume(t)
  \/ \E ms \in SUBSET Users : MembersAdded("y", ms)
  \/ \E c \in Conns : SocketClose(c)

SpecApi == Init /\ [][NextApi]_vars

\* typing indicators among the subscribers of one chat
TypingFrames ==
  AuthFrames({"tok_u1", "tok_u2"})
    \cup ChatFrames({"join_chat", "typing_start", "typing_stop"}, {"x"})
    \cup ChatFrames({"typing_start"}, {"y"})

NextTyping ==
  \/ \E c \in Conns : Connect(c)
  \/ \E c \in Conns, raw \in TypingFrames : RecvAuth(c, raw)
  \/ \E c \in Conns, raw \in TypingFrames : RecvJoin(c, raw)
  \/ \E t \in tasks : JoinResume(t)
  \/ \E c \in Conns, raw \in TypingFrames : RecvTyping(c, raw)
  \/ \E c \in Conns : SocketClose(c)

SpecTyping == Init /\ [][NextTyping]_vars

\* leaving chats the socket is and is not subscribed to (u1 is no member of y)
LeaveFrames == AuthFrames({"tok_u1"}) \cup ChatFrames({"join_chat", "leave_chat"}, {"x", "y"})

NextLeave ==
  \/ \E c \in Conns : Connect(c)
  \/ \E c \in Conns, raw \in LeaveFrames : RecvAuth(c, raw)
  \/ \E c \in Conns, raw \in LeaveFrames : RecvJoin(c, raw)
  \/ \E t \in tasks : JoinResume(t)
  \/ \E c \in Conns, raw \in LeaveFrames : RecvLeave(c, raw)
  \/ \E c \in Conns : SocketClose(c)

SpecLeave == Init /\ [][NextLeave]_vars

\* frames no client event shape matches, on sockets with and without a user,
\* subscriptions and marked acks
DropFrames ==
  AuthFrames({"tok_u1"}) \cup ChatFrames({"join_chat"}, {"x"})
    \cup MsgFrames({"ack_delivered"}, {"x"}, {"m1"}) \cup Malformed

NextDrop ==
  \/ \E c \in Conns : Connect(c)
  \/ \E c \in Conns, raw \in DropFrames : RecvMalformed(c, raw)
  \/ \E c \in Conns, raw \in DropFrames : RecvAuth(c, raw)
  \/ \E c \in Conns, raw \in DropFrames : RecvJoin(c, raw)
  \/ \E t \in tasks : JoinResume(t)
  \/ \E c \in Conns, raw \in DropFrames : RecvAck(c, raw)
  \/ \E t \in tasks, ok \in BOOLEAN : AckResume(t, ok)
  \/ \E c \in Conns : SocketClose(c)

SpecDrop == Init /\ [][NextDrop]_vars

\* batched acknowledgements of both kinds on chat x by the sockets of u1
\* (x holds two messages of u2 and one of u1), next to a single ack and
\* failing collaborator calls
AckAllFrames ==
  AuthFrames({"tok_u1"}) \cup ChatFrames({"join_chat"}, {"x"})
    \cup ChatFrames({"ack_delivered_all", "ack_read_all"}, {"x"})
    \cup MsgFrames({"ack_delivered"}, {"x"}, {"m1"})

NextAckAll ==
  \/ \E c \in Conns : Connect(c)
  \/ \E c \in Conns, raw \in AckAllFrames : RecvAuth(c, raw)
  \/ \E c \in Conns, raw \in AckAllFrames : RecvJoin(c, raw)
  \/ \E t \in tasks : JoinResume(t)
  \/ \E c \in Conns, raw \in AckAllFrames : RecvAck(c, raw)
  \/ \E t \in tasks, ok \in BOOLEAN : AckResume(t, ok)
  \/ \E c \in Conns, raw \in AckAllFrames : RecvAckAll(c, raw)
  \/ \E t \in tasks : AckAllQueried(t)
  \/ \E t \in tasks : AckAllWritten(t)
  \/ \E t \in tasks : Reject(t)
  \/ \E c \in Conns : SocketClose(c)

SpecAckAll == Init /\ [][NextAckAll]_vars

\* publish calls to the topics x and y, which the sockets of u2 join at
\* different times, in a run that logs them
OrderFrames == AuthFrames({"tok_u2"}) \cup ChatFrames({"join_chat"}, {"x", "y"})

NextOrder ==
  \/ \E c \in Conns : Connect(c)
  \/ \E c \in Conns, raw \in OrderFrames : RecvAuth(c, raw)
  \/ \E c \in Conns, raw \in OrderFrames : RecvJoin(c, raw)
  \/ \E t \in tasks : JoinResume(t)
  \/ MessageCreated("x", "m1")
  \/ MessageCreated("y", "m2")

SpecOrder == InitRecording /\ [][NextOrder]_vars

\* subscriptions of sockets that change identity after a join, with the
\* acks, typing frames and publish calls for the chat they keep
VerifiedFrames ==
  AuthFrames({"tok_u1", "tok_u2"}) \cup ChatFrames({"join_chat", "typing_start"}, {"y"})
    \cup MsgFrames({"ack_read"}, {"y"}, {"m2"})

NextVerified ==
  \/ \E c \in Conns : Connect(c)
  \/ \E c \in Conns, raw \in VerifiedFrames : RecvAuth(c, raw)
  \/ \E c \in Conns, raw \in VerifiedFrames : RecvJoin(c, raw)
  \/ \E t \in tasks : JoinResume(t)
  \/ \E c \in Conns, raw \in VerifiedFrames : RecvAck(c, raw)
  \/ \E t \in tasks, ok \in BOOLEAN : AckResume(t, ok)
  \/ \E c \in Conns, raw \in VerifiedFrames : RecvTyping(c, raw)
  \/ MessageCreated("y", "m2")
  \/ \E c \in Conns : SocketClose(c)

SpecVerified == Init /\ [][NextVerified]_vars

\* sockets of u1 that close or are terminated (for a failed auth) while a
\* single or a batched ack of theirs is suspended
SuspendedFrames ==
  AuthFrames({"tok_u1", "tok_bad"}) \cup ChatFrames({"join_chat", "ack_delivered_all"}, {"x"})
    \cup MsgFrames({"ack_read"}, {"x"}, {"m1"})

NextSuspended ==
  \/ \E c \in Conns : Connect(c)
  \/ \E c \in Conns, raw \in SuspendedFrames : RecvAuth(c, raw)
  \/ \E c \in Conns, raw \in SuspendedFrames : RecvJoin(c, raw)
  \/ \E t \in tasks : JoinResume(t)
  \/ \E c \in Conns, raw \in SuspendedFrames : RecvAck(c, raw)
  \/ \E t \in tasks, ok \in BOOLEAN : AckResume(t, ok)
  \/ \E c \in Conns, raw \in SuspendedFrames : RecvAckAll(c, raw)
  \/ \E t \in tasks : AckAllQueried(t)
  \/ \E t \in tasks : AckAllWritten(t)
  \/ \E c \in Conns : SocketClose(c)

SpecSuspended == Init /\ [][NextSuspended]_vars

\* publish calls (message_sent for x and for y, the read ack of m1) while
\* subscribers of x are open, terminated for a failed auth, or gone
PublishFrames ==
  AuthFrames({"tok_u1", "tok_bad"}) \cup ChatFrames({"join_chat"}, {"x"})
    \cup MsgFrames({"ack_read"}, {"x"}, {"m1"})

NextPublish ==
  \/ \E c \in Conns : Connect(c)
  \/ \E c \in Conns, raw \in PublishFrames : RecvAuth(c, raw)
  \/ \E c \in Conns, raw \in PublishFrames : RecvJoin(c, raw)
  \/ \E t \in tasks : JoinResume(t)
  \/ \E c \in Conns, raw \in PublishFrames : RecvAck(c, raw)
  \/ \E t \in tasks, ok \in BOOLEAN : AckResume(t, ok)
  \/ MessageCreated("x", "m1")
  \/ MessageCreated("y", "m2")
  \/ \E c \in Conns : SocketClose(c)

SpecPublish == Init /\ [][NextPublish]_vars

\* single acks that name chat x, which u1 has joined, and message m2, which
\* is a message of chat y (u1 is no member of y)
ForeignFrames ==
  AuthFrames({"tok_u1"}) \cup ChatFrames({"join_chat"}, {"x"})
    \cup MsgFrames(AckFrameTypes, {"x"}, {"m2"})

NextForeign ==
  \/ \E c \in Conns : Connect(c)
  \/ \E c \in Conns, raw \in ForeignFrames : RecvAuth(c, raw)
  \/ \E c \in Conns, raw \in ForeignFrames : RecvJoin(c, raw)
  \/ \E t \in tasks : JoinResume(t)
  \/ \E c \in Conns, raw \in ForeignFrames : RecvAck(c, raw)
  \/ \E t \in tasks, ok \in BOOLEAN : AckResume(t, ok)
  \/ \E c \in Conns : SocketClose(c)

SpecForeign == Init /\ [][NextForeign]_vars

\* batched acks of both kinds on chat x by the sockets of u1 and nothing
\* else that writes to the delivered-to and read-by records
BatchFrames ==
  AuthFrames({"tok_u1"}) \cup ChatFrames({"join_chat"}, {"x"})
    \cup ChatFrames({"ack_delivered_all", "ack_read_all"}, {"x"})

NextBatch ==
  \/ \E c \in Conns : Connect(c)
  \/ \E c \in Conns, raw \in BatchFrames : RecvAuth(c, raw)
  \/ \E c \in Conns, raw \in BatchFrames : RecvJoin(c, raw)
  \/ \E t \in tasks : JoinResume(t)
  \/ \E c \in Conns, raw \in BatchFrames : RecvAckAll(c, raw)
  \/ \E t \in tasks : AckAllQueried(t)
  \/ \E t \in tasks : AckAllWritten(t)
  \/ \E c \in Conns : SocketClose(c)

SpecBatch == Init /\ [][NextBatch]_vars

\* messages m1 and m3 sent to chat x through sendMessage, with the sockets
\* of u1 that join x, in a run that logs what is handed to each socket
SendFrames == AuthFrames({"tok_u1"}) \cup ChatFrames({"join_chat"}, {"x"})

NextSend ==
  \/ \E c \in Conns : Connect(c)
  \/ \E c \in Conns, raw \in SendFrames : RecvAuth(c, raw)
  \/ \E c \in Conns, raw \in SendFrames : RecvJoin(c, raw)
  \/ \E t \in tasks : JoinResume(t)
  \/ \E m \in {"m1", "m3"} : SendMessage("x", m)
  \/ \E t \in tasks : ChatUpdatedResume(t)

SpecSend == InitRecording /\ [][NextSend]_vars

\* ================================================================ properties
\* the sockets bound to user u whose disconnect has not been processed yet
Live(u) == {c \in Conns : rs[c] \in {"OPEN", "CLOSING"} /\ fin[c] = 0 /\ userId[c] = u}

\* how many times the last step called broadcastAll with this presence event
Broadcasts(cs, type, u) ==
  Cardinality({i \in DOMAIN cs : cs[i].op = "broadcastAll" /\ cs[i].ev.type = type
                                   /\ cs[i].ev.user = u})

FrameStep(c) == last'.kind = "frame" /\ last'.conn = c

\* C1: presence_online{U} is broadcast exactly when the first socket bound to
\* U appears, presence_offline{U} exactly when the last one goes, and never
\* while another socket bound to U is still open: in every step the number of
\* presence broadcasts about U is 1 on such an edge and 0 otherwise.
C1_PresenceOncePerEdge ==
  [][\A u \in Users :
       /\ Broadcasts(calls', "presence_online", u)
            = (IF Live(u) = {} /\ Live(u)' # {} THEN 1 ELSE 0)
       /\ Broadcasts(calls', "presence_offline", u)
            = (IF Live(u) # {} /\ Live(u)' = {} THEN 1 ELSE 0)]_vars

\* C2: a socket that was authenticated and has left is in no topic and has had
\* its user's counter decremented exactly once, whatever triggers fired.
C2_DecrementedExactlyOnce ==
  \A c \in Conns :
    rs[c] = "CLOSED" /\ userId[c] # NoUser =>
      /\ dec[c] = 1
      /\ subs[c] = {}
      /\ \A x \in DOMAIN chatSubs : c \notin chatSubs[x]

\* C3: the presence counter of every user equals the number of sockets bound
\* to that user whose disconnect has not been processed.
C3_CounterIsConnectionCount ==
  \A u \in Users : Count(Cur, u) = Cardinality(Live(u))

\* the tokens verifyJwt throws on
FailingTokens == {"tok_noid", "tok_bad"}

\* the step that handles an auth frame with such a token
C10_FailedAuthStep ==
  \A c \in Conns :
    FrameStep(c) /\ last'.raw.type = "auth" /\ last'.raw.token \in FailingTokens =>
      /\ out' = <<[to |-> c, ev |-> Ev("auth_error", NoChat, NoMsg, NoUser, {}, "Auth failed")]>>
      /\ rs'[c] = "CLOSING"
      /\ userId' = userId
      /\ userConnCount' = userConnCount

\* a socket terminated for a failed auth is never open again, and its
\* disconnect decrements a bound identity once
C10_FailedAuthClosed ==
  \A c \in Conns :
    term[c] = "auth_fail" =>
      /\ rs[c] # "OPEN"
      /\ rs[c] = "CLOSED" /\ userId[c] # NoUser => dec[c] = 1
      /\ rs[c] = "CLOSING" => dec[c] = 0

\* C10: an auth frame whose token does not verify is answered auth_error and
\* the socket is terminated, whether or not it was authenticated; no user id
\* is bound or rebound and no counter moves in that step; the disconnect that
\* follows decrements a previously bound identity exactly once.
C10_AuthFailureTerminates == [][C10_FailedAuthStep]_vars /\ []C10_FailedAuthClosed

\* an authenticated socket failed a later auth and its disconnect was processed
C10_Witness ==
  \E c \in Conns :
    /\ term[c] = "auth_fail"
    /\ rs[c] = "CLOSED"
    /\ userId[c] # NoUser
    /\ dec[c] = 1
    /\ last.kind = "close" /\ last.conn = c


\* C4: a frame other than a well-formed auth frame, from a socket that has no
\* successful auth yet, changes neither the subscription index (either
\* direction), nor a presence counter, nor a dedup set, and leaves no handler
\* suspended on the socket's behalf.
C4_PreAuthFramesChangeNothing ==
  [][\A c \in Conns :
       FrameStep(c) /\ userId[c] = NoUser /\ last'.raw \notin AuthFrames(Tokens) =>
         UNCHANGED <<chatSubs, subs, userConnCount, delivered, read, tasks>>]_vars

\* an ack frame from a socket that never authenticated has been handled
C4_Witness ==
  \E c \in Conns :
    /\ last.kind = "frame" /\ last.conn = c
    /\ last.raw.type = "ack_delivered"
    /\ userId[c] = NoUser
    /\ term[c] = "policy"

AuthErrorTo(c, text) == <<[to |-> c, ev |-> Ev("auth_error", NoChat, NoMsg, NoUser, {}, text)]>>

\* C9 as stated: any frame whose type is not auth, received by a socket
\* without a user, is answered auth_error and the socket is terminated.
C9_AnyNonAuthFrameTerminates ==
  [][\A c \in Conns :
       FrameStep(c) /\ userId[c] = NoUser /\ last'.raw.type # "auth" =>
         out' = AuthErrorTo(c, "Authenticate first") /\ rs'[c] = "CLOSING"]_vars

\* C9 as amended: every frame that has one of the eight non-auth client event
\* shapes, received by a socket without a user, is answered auth_error and
\* the socket is terminated.
C9_WellFormedNonAuthFrameTerminates ==
  [][\A c \in Conns :
       /\ FrameStep(c)
       /\ userId[c] = NoUser
       /\ last'.raw \in WellFormed
       /\ last'.raw.type # "auth"
       => out' = AuthErrorTo(c, "Authenticate first") /\ rs'[c] = "CLOSING"]_vars

\* a typing frame from a socket without a user has ended the connection
C9_Witness ==
  \E c \in Conns :
    /\ last.kind = "frame" /\ last.conn = c
    /\ last.raw.type = "typing_start"
    /\ rs[c] = "CLOSING"
    /\ out = AuthErrorTo(c, "Authenticate first")

\* C5: chat x is in the subscription set of socket c exactly if c is in the
\* connection set the index keeps for x.
C5_IndexSymmetry ==
  \A c \in Conns, x \in ChatIds :
    x \in subs[c] <=> (x \in DOMAIN chatSubs /\ c \in chatSubs[x])

\* one socket has just left chat x while another one stays subscribed to it
C5_Witness ==
  \E c, d \in Conns :
    /\ c # d
    /\ last.kind = "frame" /\ last.conn = c /\ last.raw.type = "leave_chat"
    /\ last.raw.chatId = "x"
    /\ "x" \notin subs[c]
    /\ "x" \in subs[d] /\ chatSubs["x"] = {d}
    /\ rs[d] = "OPEN"

\* C6: a socket whose disconnect has been processed is in no topic's
\* connection set.
C6_DisconnectedNotInIndex ==
  \A c \in Conns :
    fin[c] > 0 => \A x \in DOMAIN chatSubs : c \notin chatSubs[x]


ReplyTo(c, type, x, text) == <<[to |-> c, ev |-> Ev(type, x, NoMsg, NoUser, {}, text)]>>

DenyReasons == {"Invalid chatId", "Chat not found", "Not a chat member"}

\* the step in which the handling of a join_chat{x} frame of socket c ends:
\* the frame step when nothing is left suspended, else the step that resumes
\* or rejects the lookup
JoinEnds(c, x) ==
  /\ last'.conn = c
  /\ last'.raw.type = "join_chat"
  /\ last'.raw.chatId = x
  /\ \/ last'.kind = "frame" /\ tasks' = tasks
     \/ last'.kind \in {"resume", "reject"}

MayJoin(c, x) ==
  /\ userId[c] # NoUser
  /\ x # "bad"
  /\ x \in StoredChats
  /\ userId[c] \in ChatMembers[x]

InBothDirections(c, x) ==
  /\ subs' = [subs EXCEPT ![c] = @ \cup {x}]
  /\ DOMAIN chatSubs' = DOMAIN chatSubs \cup {x}
  /\ \A k \in DOMAIN chatSubs' :
       chatSubs'[k] = IF k = x
                      THEN (IF x \in DOMAIN chatSubs THEN chatSubs[x] ELSE {}) \cup {c}
                      ELSE chatSubs[k]

\* C7 as stated: a join_chat of an authenticated socket with a valid id of an
\* existing chat that lists the user is answered joined_chat and indexed in
\* both directions; every other join_chat is answered join_denied with one
\* of the three reasons, the socket is not terminated and the index and the
\* socket's subscription set stay as they were.
C7_JoinedOrDenied ==
  [][\A c \in Conns, x \in ChatIds :
       JoinEnds(c, x) =>
         IF MayJoin(c, x)
         THEN /\ out' = ReplyTo(c, "joined_chat", x, "")
              /\ x \in subs'[c]
              /\ x \in DOMAIN chatSubs' /\ c \in chatSubs'[x]
         ELSE /\ \E r \in DenyReasons : out' = ReplyTo(c, "join_denied", x, r)
              /\ rs'[c] = rs[c]
              /\ UNCHANGED <<chatSubs, subs>>]_vars

\* C7 as amended: a join_chat of a socket without a user is answered
\* auth_error and the socket is terminated; a lookup that rejects ends the
\* handling with no reply; otherwise the outcome is join_denied 'Invalid
\* chatId' for an id of invalid format, join_denied 'Chat not found' for a
\* chat that is not stored, join_denied 'Not a chat member' for a user the
\* chat does not list, and else the socket is indexed in both directions and
\* answered joined_chat. A reply is written only to a transport that is
\* still open; a denied or rejected join leaves the socket unterminated and
\* the index and the subscription sets unchanged.
C7_JoinOutcomes ==
  [][\A c \in Conns, x \in ChatIds :
       JoinEnds(c, x) =>
         LET Replied(type, text) ==
               out' = IF rs[c] = "OPEN" THEN ReplyTo(c, type, x, text) ELSE <<>>
             Same == rs'[c] = rs[c] /\ UNCHANGED <<chatSubs, subs>>
         IN CASE userId[c] = NoUser ->
                   /\ out' = AuthErrorTo(c, "Authenticate first")
                   /\ rs'[c] = "CLOSING"
                   /\ UNCHANGED <<chatSubs, subs>>
              [] userId[c] # NoUser /\ last'.kind = "reject" -> out' = <<>> /\ Same
              [] userId[c] # NoUser /\ last'.kind # "reject" /\ x = "bad" ->
                   Replied("join_denied", "Invalid chatId") /\ Same
              [] userId[c] # NoUser /\ last'.kind # "reject" /\ x # "bad" /\ x \notin StoredChats ->
                   Replied("join_denied", "Chat not found") /\ Same
              [] OTHER ->
                   IF userId[c] \in ChatMembers[x]
                   THEN Replied("joined_chat", "") /\ InBothDirections(c, x) /\ rs'[c] = rs[c]
                   ELSE Replied("join_denied", "Not a chat member") /\ Same]_vars

\* a user the chat does not list has been denied and stays unsubscribed
C7_Witness ==
  \E c \in Conns :
    /\ last.kind = "resume" /\ last.conn = c
    /\ last.raw.type = "join_chat" /\ last.raw.chatId = "y"
    /\ userId[c] = "u1"
    /\ out = ReplyTo(c, "join_denied", "y", "Not a chat member")
    /\ "y" \notin subs[c]
    /\ rs[c] = "OPEN"

AckKeys == Conns \X Kinds \X ChatIds \X MsgIds

Pending(k) ==
  \E t \in tasks :
    /\ t.type \in AckFrameTypes
    /\ t.c = k[1] /\ KindOf(t.type) = k[2] /\ t.chat = k[3] /\ t.msg = k[4]

\* every key a socket has marked is written and published once as soon as
\* no handler for it is suspended, and never more than once (a write counts
\* as issued whether or not the store accepts it)
C8_OncePerKey ==
  \A k \in AckKeys :
    /\ AckCount(k) <= 1
    /\ <<k[3], k[4]>> \in Seen(Cur, k[1], k[2]) /\ ~Pending(k) => AckCount(k) = 1
    /\ <<k[3], k[4]>> \notin Seen(Cur, k[1], k[2]) => AckCount(k) = 0

Sent(o, d, e) == Cardinality({i \in DOMAIN o : o[i].to = d /\ o[i].ev = e})

\* the step that completes a single ack issues one write and hands the ack
\* event once to every open subscriber of the chat and to nobody else
C8_OneWriteOneBroadcast ==
  \A c \in Conns :
    last'.kind = "resume" /\ last'.conn = c /\ last'.raw.type \in AckFrameTypes =>
      LET x == last'.raw.chatId
          m == last'.raw.messageId
          e == Ev(IF last'.raw.type = "ack_delivered" THEN "message_delivered" ELSE "message_read",
                  x, m, userId[c], {}, "")
      IN /\ Cardinality({i \in DOMAIN calls' : calls'[i].op \in {"updateOne", "updateOneFailed"}}) = 1
         /\ Cardinality({i \in DOMAIN calls' : calls'[i].op = "publishToChat"}) = 1
         /\ Len(out') = Cardinality({d \in Conns : Sent(out', d, e) = 1})
         /\ \A d \in Conns :
              Sent(out', d, e) =
                IF rs[d] = "OPEN" /\ x \in DOMAIN chatSubs /\ d \in chatSubs[x] THEN 1 ELSE 0

\* C8: identical single-ack frames on one subscribed socket, however they
\* interleave with their own suspended writes, give one write and one ack
\* broadcast per ack kind and (chat id, message id), and the broadcast hands
\* the event exactly once to every open subscriber of the chat.
C8_SingleAckIdempotent == []C8_OncePerKey /\ [][C8_OneWriteOneBroadcast]_vars

\* a repeated ack_read frame has been handled after the first one completed
C8_Witness ==
  \E c \in Conns :
    /\ last.kind = "frame" /\ last.conn = c
    /\ last.raw.type = "ack_read" /\ last.raw.chatId = "x" /\ last.raw.messageId = "m1"
    /\ "x" \in subs[c]
    /\ AckCount(<<c, "read", "x", "m1">>) = 1
    /\ tasks = {}
    /\ out = <<>>


\* ---------------------------------------------------------------- presence
\* the identity each verifiable token carries
IdentityOf == [tok_u1 |-> "u1", tok_u2 |-> "u2"]

\* the counter of user u before and after a step (an absent key counts 0)
CountNow(u) == IF u \in DOMAIN userConnCount THEN userConnCount[u] ELSE 0
CountNext(u) == IF u \in DOMAIN userConnCount' THEN userConnCount'[u] ELSE 0

\* C11: a successful auth as B on a socket bound to A (A # B) lowers A's
\* counter by one, binds the socket to B and raises B's counter by one; the
\* disconnect of a socket lowers the counter of the identity it is bound to
\* by one and no other counter.
C11_RebindMovesOneCount ==
  [][\A c \in Conns :
       /\ (/\ FrameStep(c)
           /\ last'.raw.type = "auth"
           /\ last'.raw.token \in DOMAIN IdentityOf
           /\ userId[c] \notin {NoUser, IdentityOf[last'.raw.token]})
          => LET A == userId[c]
                 B == IdentityOf[last'.raw.token]
             IN /\ CountNext(A) = CountNow(A) - 1
                /\ userId'[c] = B
                /\ CountNext(B) = CountNow(B) + 1
       /\ (/\ last'.kind \in {"close", "error"}
           /\ last'.conn = c
           /\ fin[c] = 0
           /\ userId[c] # NoUser)
          => \A u \in Users :
               CountNext(u) = IF u = userId[c] THEN CountNow(u) - 1 ELSE CountNow(u)]_vars


\* how many last-seen writes for user u a step sent to the user store (a
\* query that is built and dropped is no write)
LastSeenWrites(cs, u) ==
  Cardinality({i \in DOMAIN cs : cs[i].op = "write" /\ cs[i].ev.type = "lastSeenAt"
                                   /\ cs[i].ev.user = u})

\* C12: in every step, presence_offline{U} is broadcast once and U's
\* last-seen time is written once if the step takes U's counter from above 0
\* to 0, and otherwise neither happens (not when the counter was already 0
\* or absent, not when it stays above 0).
C12_OfflineOnlyOnTransitionToZero ==
  [][\A u \in Users :
       LET n == IF CountNow(u) > 0 /\ CountNext(u) = 0 THEN 1 ELSE 0
       IN /\ Broadcasts(calls', "presence_offline", u) = n
          /\ LastSeenWrites(calls', u) = n]_vars


\* the presence map holds only users, each with a count of at least 1
C13_CountersPositive ==
  /\ DOMAIN userConnCount \subseteq Users
  /\ \A u \in DOMAIN userConnCount : userConnCount[u] >= 1

\* a step broadcasts presence_online{U} only by taking U's counter from 0 to
\* 1, and then once
C13_OnlineOnlyOnFirst ==
  \A u \in Users :
    Broadcasts(calls', "presence_online", u) > 0 =>
      /\ CountNow(u) = 0
      /\ CountNext(u) = 1
      /\ Broadcasts(calls', "presence_online", u) = 1

\* C13: no presence counter is ever below 0 (the presence map holds only
\* users whose count is at least 1), and presence_online{U} is broadcast only
\* when U's counter moves from 0 to 1.
C13_CountersNeverNegative == []C13_CountersPositive /\ [][C13_OnlineOnlyOnFirst]_vars

\* a second socket of u1 has authenticated: the counter is 2 and the step
\* announced nothing
C13_Witness ==
  /\ last.kind = "frame" /\ last.raw.type = "auth" /\ last.raw.token = "tok_u1"
  /\ CountNow("u1") = 2
  /\ Cardinality({c \in Conns : userId[c] = "u1" /\ rs[c] = "OPEN"}) = 2
  /\ Broadcasts(calls, "presence_online", "u1") = 0


\* ---------------------------------------------------------------- heartbeat
\* the sockets a step pinged
Pinged(cs) == UNION {cs[i].ev.ids : i \in {j \in DOMAIN cs : cs[j].op = "ping"}}

\* a sweep terminates every client whose flag is false and pings none of
\* them; it clears the flag of every other client, pings it and leaves it as
\* it is; a pong sets the flag; a socket the monitor terminates had seen a
\* whole sweep since its last pong
C14_SweepAndPong ==
  \A c \in Conns :
    /\ last'.kind = "heartbeat" /\ rs[c] \in {"OPEN", "CLOSING"} =>
         IF ~isAlive[c]
         THEN rs'[c] = "CLOSING" /\ c \notin Pinged(calls')
         ELSE isAlive'[c] = FALSE /\ rs'[c] = rs[c] /\ c \in Pinged(calls')
    /\ last'.kind = "heartbeat" /\ rs[c] \notin {"OPEN", "CLOSING"} =>
         rs'[c] = rs[c] /\ isAlive'[c] = isAlive[c] /\ c \notin Pinged(calls')
    /\ last'.kind = "pong" /\ last'.conn = c => isAlive'[c] = TRUE
    /\ last'.kind = "heartbeat" /\ rs[c] = "OPEN" /\ rs'[c] # "OPEN" => sweeps[c] >= 1

\* no open socket has seen two sweeps since its connection or its last pong
C14_SilentSocketsGone ==
  \A c \in Conns : rs[c] = "OPEN" => sweeps[c] <= 1

\* C14: each heartbeat sweep terminates every connection whose liveness flag
\* is still false from the sweep before, clears the flag of every other one
\* and pings it, and a pong sets the flag true; so the monitor never
\* terminates a connection that answers each ping before the next sweep, and
\* a connection that stops answering is terminated by the second sweep after
\* its last pong at the latest.
C14_HeartbeatMonitor == [][C14_SweepAndPong]_vars /\ []C14_SilentSocketsGone

\* one sweep has terminated a silent socket and pinged one whose flag was set
C14_Witness ==
  \E c, d \in Conns :
    /\ last.kind = "heartbeat"
    /\ term[c] = "heartbeat" /\ rs[c] = "CLOSING" /\ sweeps[c] = 2
    /\ rs[d] = "OPEN" /\ sweeps[d] = 1 /\ ~isAlive[d]
    /\ Pinged(calls) = {d}


\* the close event of a socket whose transport has been destroyed
CloseAfterTerminate(c) == rs[c] = "CLOSING" /\ SocketClose(c)

\* presence with the close event that follows every terminate()
FairPresence ==
  Init /\ [][NextPresence]_vars /\ \A c \in Conns : WF_vars(CloseAfterTerminate(c))

\* the monitor has terminated socket c, the only socket bound to user u
LastOneTimedOut(c, u) ==
  /\ term[c] = "heartbeat" /\ rs[c] = "CLOSING"
  /\ userId[c] = u
  /\ Live(u) = {c}

\* the step just taken told every open socket that u is offline, u has no
\* counter and c is in no topic
AnnouncedOffline(c, u) ==
  /\ Broadcasts(calls, "presence_offline", u) = 1
  /\ \A d \in Conns :
       rs[d] = "OPEN" => Sent(out, d, Ev("presence_offline", NoChat, NoMsg, u, {}, "")) = 1
  /\ u \notin DOMAIN userConnCount
  /\ subs[c] = {}
  /\ \A x \in DOMAIN chatSubs : c \notin chatSubs[x]

\* C15: once the heartbeat monitor has terminated the last open connection
\* bound to U, eventually every remaining open connection receives
\* presence_offline{U}, U is absent from the presence map and the terminated
\* connection is in no topic (unless another connection has authenticated as
\* U in the meantime).
C15_TimeoutLeadsToOffline ==
  \A c \in Conns, u \in Users :
    LastOneTimedOut(c, u) ~>
      (AnnouncedOffline(c, u) \/ \E d \in Conns \ {c} : userId[d] = u /\ rs[d] = "OPEN")


\* ------------------------------------------- calls of the REST collaborator
\* the step handed event e once to each socket of cs and wrote nothing else
DeliveredExactlyTo(cs, e) ==
  /\ \A c \in Conns : Sent(out', c, e) = IF c \in cs THEN 1 ELSE 0
  /\ Len(out') = Cardinality(cs)

\* C16: chatCreated(chat) delivers chat_created to exactly the sockets that
\* are open, authenticated and bound to a user of chat.members, whether or
\* not they are subscribed to the chat's topic, and to no other socket.
C16_ChatCreatedToMembers ==
  [][last'.kind = "api" /\ last'.raw.type = "chat_created" =>
       LET e == calls'[1].ev
       IN /\ e.type = "chat_created" /\ e.chat = last'.raw.chatId
          /\ DeliveredExactlyTo({c \in Conns : /\ rs[c] = "OPEN"
                                               /\ userId[c] # NoUser
                                               /\ userId[c] \in e.ids}, e)]_vars

\* chat_created for members {u1} reached the socket of u1, which is not
\* subscribed to the chat, and not the subscribed socket of u2
C16_Witness ==
  \E c, d \in Conns :
    /\ last.kind = "api" /\ last.raw.type = "chat_created" /\ last.raw.chatId = "x"
    /\ calls[1].ev.ids = {"u1"}
    /\ userId[c] = "u1" /\ rs[c] = "OPEN" /\ "x" \notin subs[c]
    /\ userId[d] = "u2" /\ rs[d] = "OPEN" /\ "x" \in subs[d]
    /\ out = <<[to |-> c, ev |-> calls[1].ev]>>

\* C17: messageCreated(message) delivers message_sent to exactly the open
\* sockets that are in the subscription index for message.chatId at the call;
\* an open socket of a chat member that has not joined does not receive it.
C17_MessageSentToSubscribers ==
  [][last'.kind = "api" /\ last'.raw.type = "message_sent" =>
       LET e == calls'[1].ev
           x == last'.raw.chatId
       IN /\ e.type = "message_sent" /\ e.chat = x /\ e.msg = last'.raw.messageId
          /\ DeliveredExactlyTo({c \in Conns : /\ rs[c] = "OPEN"
                                               /\ x \in DOMAIN chatSubs
                                               /\ c \in chatSubs[x]}, e)]_vars

\* message_sent reached the subscribed socket and not the open socket of a
\* member that has not joined
C17_Witness ==
  \E c, d \in Conns :
    /\ last.kind = "api" /\ last.raw.type = "message_sent" /\ last.raw.chatId = "x"
    /\ rs[c] = "OPEN" /\ "x" \in subs[c]
    /\ rs[d] = "OPEN" /\ userId[d] \in members["x"] /\ "x" \notin subs[d]
    /\ out = <<[to |-> c, ev |-> calls[1].ev]>>

\* C18: chatUpdated(payload) delivers chat_updated to exactly the sockets
\* that are open, authenticated and bound to a member of the chat as the
\* membership and the sockets are when the lookup returns; if the chat is
\* not found it delivers nothing.
C18_ChatUpdatedToCurrentMembers ==
  [][last'.kind = "resume" /\ last'.raw.type = "chat_updated" =>
       LET x == last'.raw.chatId
           e == Ev("chat_updated", x, NoMsg, NoUser, {}, "")
       IN IF x \in DOMAIN members
          THEN DeliveredExactlyTo({c \in Conns : /\ rs[c] = "OPEN"
                                                 /\ userId[c] # NoUser
                                                 /\ userId[c] \in members[x]}, e)
          ELSE out' = <<>>]_vars

\* chat_updated of chat y reached a socket of u1, whom the chat did not list
\* at first, and that socket was not eligible when the call was made
C18_Witness ==
  \E c \in Conns :
    /\ last.kind = "resume" /\ last.raw.type = "chat_updated" /\ last.raw.chatId = "y"
    /\ userId[c] = "u1" /\ "u1" \notin ChatMembers["y"]
    /\ c \notin calls[1].ev.ids
    /\ Sent(out, c, Ev("chat_updated", "y", NoMsg, NoUser, {}, "")) = 1


\* ------------------------------------------------------------------ typing
\* C19: a typing_start or typing_stop frame of a subscribed socket bound to
\* user U is delivered to every open subscriber of the chat bound to another
\* user and to no socket bound to U, the sender included; a typing frame for
\* a chat the socket is not subscribed to is delivered to nobody.
C19_TypingSkipsAllOfSender ==
  [][\A c \in Conns :
       /\ FrameStep(c)
       /\ last'.raw \in WellFormed
       /\ last'.raw.type \in {"typing_start", "typing_stop"}
       /\ userId[c] # NoUser
       => LET x == last'.raw.chatId
              e == Ev(last'.raw.type, x, NoMsg, userId[c], {}, "")
          IN IF x \in subs[c]
             THEN DeliveredExactlyTo({d \in Conns : /\ rs[d] = "OPEN"
                                                    /\ x \in DOMAIN chatSubs
                                                    /\ d \in chatSubs[x]
                                                    /\ userId[d] # userId[c]}, e)
             ELSE out' = <<>>]_vars

\* typing_stop of u1 reached the subscribed socket of u2 and not its sender
C19_Witness ==
  \E c, d \in Conns :
    /\ last.kind = "frame" /\ last.conn = c /\ last.raw.type = "typing_stop"
    /\ userId[c] = "u1" /\ "x" \in subs[c] /\ rs[c] = "OPEN"
    /\ userId[d] = "u2" /\ "x" \in subs[d]
    /\ out = <<[to |-> d, ev |-> Ev("typing_stop", "x", NoMsg, "u1", {}, "")]>>

\* ------------------------------------------------------------------- leave
\* the sockets the index holds for chat k (none if the chat has no entry)
Idx(k) == IF k \in DOMAIN chatSubs THEN chatSubs[k] ELSE {}
IdxNext(k) == IF k \in DOMAIN chatSubs' THEN chatSubs'[k] ELSE {}

\* C20: leave_chat{x} on an authenticated socket is always answered
\* left_chat{x}, subscribed or not; it takes x out of the socket's set and
\* the socket out of the index entry of x and touches nothing else; a
\* leave_chat{x} that follows a leave_chat{x} of the same socket changes
\* neither the index nor any subscription set.
C20_LeaveIdempotent ==
  [][\A c \in Conns :
       /\ FrameStep(c)
       /\ last'.raw \in WellFormed
       /\ last'.raw.type = "leave_chat"
       /\ userId[c] # NoUser
       => LET x == last'.raw.chatId
          IN /\ out' = ReplyTo(c, "left_chat", x, "")
             /\ subs' = [subs EXCEPT ![c] = @ \ {x}]
             /\ \A k \in ChatIds : IdxNext(k) = IF k = x THEN Idx(k) \ {c} ELSE Idx(k)
             /\ \A k \in DOMAIN chatSubs' : chatSubs'[k] # {}
             /\ x \notin subs[c] => UNCHANGED <<chatSubs, subs>>
             /\ last = last' => UNCHANGED <<chatSubs, subs>>]_vars

\* a socket of u1, subscribed to x, has left chat y, which it could never
\* join: it is answered and keeps its subscription to x
C20_Witness ==
  \E c \in Conns :
    /\ last.kind = "frame" /\ last.conn = c
    /\ last.raw.type = "leave_chat" /\ last.raw.chatId = "y"
    /\ userId[c] = "u1" /\ "u1" \notin ChatMembers["y"]
    /\ out = ReplyTo(c, "left_chat", "y", "")
    /\ subs[c] = {"x"} /\ Idx("x") = {c} /\ Idx("y") = {}

\* ------------------------------------------------------- malformed frames
\* C21: a frame that matches none of the nine client event shapes (not JSON,
\* unknown type, a required field missing) gets no reply and causes no call;
\* the socket stays as it is, with or without a bound user, and the
\* subscription index, the subscription sets, the presence counters, the
\* dedup sets and the suspended handlers are unchanged.
C21_MalformedDropped ==
  [][\A c \in Conns :
       FrameStep(c) /\ last'.raw \in Malformed =>
         /\ out' = <<>>
         /\ calls' = <<>>
         /\ rs' = rs
         /\ UNCHANGED <<userId, chatSubs, subs, userConnCount, delivered, read, tasks>>]_vars

\* an ack frame without a message id has been dropped on a subscribed socket
\* of u1 that has marked an ack, while another open socket has no user
C21_Witness ==
  \E c, d \in Conns :
    /\ last = InFrame(c, Raw("ack_read", Absent, "x", Absent))
    /\ rs[c] = "OPEN" /\ userId[c] = "u1"
    /\ subs[c] = {"x"} /\ delivered[c] = {<<"x", "m1">>}
    /\ rs[d] = "OPEN" /\ userId[d] = NoUser
    /\ out = <<>>

\* -------------------------------------------------- acks and subscription
\* a well-formed single-ack frame of socket c, bound to a user, is handled
AckFrameStep(c) ==
  /\ FrameStep(c)
  /\ last'.raw \in WellFormed
  /\ last'.raw.type \in AckFrameTypes
  /\ userId[c] # NoUser

\* C22: a single ack for a chat the socket is not subscribed to issues no
\* write, publishes nothing, suspends no handler and leaves the dedup sets
\* and the stored acks as they are; and a single ack on a subscribed socket
\* whose key has had no write issued or pending (one dropped before the join
\* included) is processed as a first ack: its key is marked and its write is
\* awaited.
C22_UnsubscribedAckLeavesNoTrace ==
  [][\A c \in Conns :
       AckFrameStep(c) =>
         LET x == last'.raw.chatId
             m == last'.raw.messageId
             kind == KindOf(last'.raw.type)
             k == <<c, kind, x, m>>
         IN /\ x \notin subs[c] =>
                 /\ out' = <<>>
                 /\ calls' = <<>>
                 /\ UNCHANGED <<delivered, read, tasks, deliveredTo, readBy, acks>>
            /\ x \in subs[c] /\ AckCount(k) = 0 /\ ~Pending(k) =>
                 /\ <<x, m>> \notin Seen(Cur, c, kind)
                 /\ <<x, m>> \in (IF kind = "delivered" THEN delivered'[c] ELSE read'[c])
                 /\ \E t \in tasks' \ tasks :
                      t.c = c /\ t.type = last'.raw.type /\ t.chat = x /\ t.msg = m]_vars

\* an ack_read frame for chat x has been dropped on a socket of u1 that is
\* not subscribed to x, while another open socket is: nothing is marked,
\* written, pending or sent
C22_Witness ==
  \E c, d \in Conns :
    /\ last = InFrame(c, Raw("ack_read", Absent, "x", "m1"))
    /\ userId[c] = "u1" /\ rs[c] = "OPEN"
    /\ "x" \notin subs[c]
    /\ rs[d] = "OPEN" /\ "x" \in subs[d]
    /\ read[c] = {} /\ readBy["m1"] = {}
    /\ tasks = {} /\ out = <<>> /\ calls = <<>>

\* ------------------------------------------------------------ batched acks
AckAllTypes == {"ack_delivered_all", "ack_read_all"}

\* the messages of chat x that user u did not send and that the store does
\* not list as acked by u for this kind
NotYetAcked(kind, x, u) ==
  {m \in MsgIds : /\ MsgChat[m] = x
                  /\ MsgSender[m] # u
                  /\ u \notin (IF kind = "delivered" THEN deliveredTo[m] ELSE readBy[m])}

\* the step that ends the await of the suspended batched ack t
AckAllStep(t, kind) ==
  /\ t \in tasks /\ t \notin tasks'
  /\ t.type \in AckAllTypes
  /\ last'.kind = kind /\ last'.conn = t.c

\* the answer of the query: with no message to ack the handling ends, else
\* the handler awaits the batch write of exactly the messages found; nothing
\* is written or sent yet
C23_Queried ==
  \A t \in tasks :
    AckAllStep(t, "resume") /\ t.stage = "query" =>
      LET ids == NotYetAcked(KindOf(t.type), t.chat, t.user)
      IN /\ out' = <<>> /\ calls' = <<>>
         /\ UNCHANGED <<deliveredTo, readBy>>
         /\ IF ids = {}
            THEN tasks' = tasks \ {t}
            ELSE \E w \in tasks' \ tasks :
                   /\ tasks' = (tasks \ {t}) \cup {w}
                   /\ w.c = t.c /\ w.type = t.type /\ w.chat = t.chat
                   /\ w.stage = "write" /\ w.ids = ids

\* the batch write: one updateMany of the messages found, then one event
\* that lists them, handed once to every open subscriber of the chat
C23_Written ==
  \A t \in tasks :
    AckAllStep(t, "resume") /\ t.stage = "write" =>
      LET kind == KindOf(t.type)
          e == Ev(IF kind = "delivered" THEN "messages_delivered" ELSE "messages_read",
                  t.chat, NoMsg, userId[t.c], t.ids, "")
          Acked(m) == IF m \in t.ids THEN {t.user} ELSE {}
      IN /\ t.ids # {}
         /\ calls' = <<[op |-> "updateMany", ev |-> Ev(kind, t.chat, NoMsg, t.user, t.ids, "")],
                       [op |-> "publishToChat", ev |-> e]>>
         /\ deliveredTo' = [m \in MsgIds |->
                              deliveredTo[m] \cup (IF kind = "delivered" THEN Acked(m) ELSE {})]
         /\ readBy' = [m \in MsgIds |->
                         readBy[m] \cup (IF kind = "read" THEN Acked(m) ELSE {})]
         /\ DeliveredExactlyTo({c \in Conns : rs[c] = "OPEN" /\ c \in Idx(t.chat)}, e)

\* a query or a batch write that fails: nothing is stored and nothing sent
C23_Failed ==
  \A t \in tasks :
    AckAllStep(t, "reject") =>
      /\ out' = <<>> /\ calls' = <<>>
      /\ UNCHANGED <<deliveredTo, readBy>>
      /\ tasks' = tasks \ {t}

\* C23: a batched ack on a subscribed socket asks the store for the messages
\* of the chat sent by other users and not yet acked by this user for this
\* kind; with none found nothing is written and nothing published; else all
\* of them are written in one batch and then exactly one batched event that
\* lists exactly those messages is handed to the chat's open subscribers;
\* when the query or the batch write fails, no event is published.
C23_BatchedAck == [][C23_Queried /\ C23_Written /\ C23_Failed]_vars

\* a batched delivered-ack of u1 on chat x, after a single ack of m1, has
\* written m3 alone and its event has reached both subscribed sockets
C23_Witness ==
  \E c, d \in Conns :
    /\ c # d
    /\ last = In("resume", c, Raw("ack_delivered_all", Absent, "x", Absent))
    /\ Len(calls) = 2 /\ calls[1].op = "updateMany" /\ calls[1].ev.ids = {"m3"}
    /\ deliveredTo = [m1 |-> {"u1"}, m2 |-> {}, m3 |-> {"u1"}, m4 |-> {}]
    /\ out = <<[to |-> c, ev |-> calls[2].ev], [to |-> d, ev |-> calls[2].ev]>>
    /\ calls[2].ev.ids = {"m3"}

\* ------------------------------------------------- failing single-ack write
\* the step in which the write of a single ack of socket c fails
AckWriteFails(c) ==
  /\ last'.kind = "resume" /\ last'.conn = c
  /\ last'.raw.type \in AckFrameTypes
  /\ Len(calls') >= 1 /\ calls'[1].op = "updateOneFailed"

\* C24: when the write of a single ack fails, nothing is stored, the ack
\* event is still published once and handed to every open subscriber of the
\* chat, nothing else is sent (no error frame to the client), no socket is
\* closed and the process does not enter its shutdown path.
C24_FailedAckWriteSwallowed ==
  [][\A c \in Conns :
       AckWriteFails(c) =>
         LET x == last'.raw.chatId
             e == Ev(IF last'.raw.type = "ack_delivered" THEN "message_delivered"
                     ELSE "message_read", x, last'.raw.messageId, userId[c], {}, "")
         IN /\ UNCHANGED <<deliveredTo, readBy>>
            /\ calls' = <<calls'[1], [op |-> "publishToChat", ev |-> e]>>
            /\ DeliveredExactlyTo({d \in Conns : rs[d] = "OPEN" /\ d \in Idx(x)}, e)
            /\ rs' = rs
            /\ shutdown' = shutdown]_vars

\* the write of an ack_delivered of u1 has failed: the store lists no ack,
\* the sender's socket is open and both subscribed sockets got the event
C24_Witness ==
  \E c, d \in Conns :
    /\ c # d
    /\ last = In("resume", c, Raw("ack_delivered", Absent, "x", "m1"))
    /\ calls[1].op = "updateOneFailed"
    /\ deliveredTo["m1"] = {}
    /\ rs[c] = "OPEN" /\ rs[d] = "OPEN"
    /\ {out[i].to : i \in DOMAIN out} = {c, d}
    /\ \A i \in DOMAIN out : out[i].ev.type = "message_delivered"

\* ------------------------------------------------------- fatal conditions
\* C25: no failure of a collaborator call made by the hub (the membership
\* lookup of join_chat, the query or the batch write of a batched ack, the
\* membership lookup of chatUpdated) brings the process into its shutdown
\* path: the unhandledRejection handler never runs.
C25_NoFailureIsFatal == shutdown = FALSE

FramesTo(o, c) == SelectSeq(o, LAMBDA f : f.to = c)

\* an auth frame of socket c whose token verifies is handled
AuthSucceeds(c) ==
  /\ FrameStep(c)
  /\ last'.raw.type = "auth"
  /\ last'.raw.token \in DOMAIN IdentityOf

\* C27 as stated: on a successful auth as U the socket receives auth_ok{U}
\* and then the presence snapshot, in that order.
C27_AuthOkThenSnapshot ==
  [][\A c \in Conns :
       AuthSucceeds(c) =>
         LET f == FramesTo(out', c)
         IN \E i, j \in DOMAIN f :
              /\ i < j
              /\ f[i].ev = Ev("auth_ok", NoChat, NoMsg, IdentityOf[last'.raw.token], {}, "")
              /\ f[j].ev.type = "presence_state"]_vars

\* C27 as amended: on a successful auth as U the socket receives the
\* presence snapshot and then auth_ok{U}, in that order: auth_ok is the last
\* frame of the step, exactly one snapshot comes before it, the snapshot
\* lists the users online before U's own counter is raised, and between the
\* two comes presence_online{U} if the auth brings U online and nothing
\* otherwise.
C27_SnapshotThenAuthOk ==
  [][\A c \in Conns :
       AuthSucceeds(c) =>
         LET f == FramesTo(out', c)
             U == IdentityOf[last'.raw.token]
             online == IF CountNow(U) = 0
                       THEN <<Ev("presence_online", NoChat, NoMsg, U, {}, "")>> ELSE <<>>
         IN \E i \in DOMAIN f :
              /\ \A j \in DOMAIN f : f[j].ev.type = "presence_state" <=> j = i
              /\ f[i].ev.ids = (DOMAIN userConnCount' \ {U}) \cup ({U} \cap DOMAIN userConnCount)
              /\ [k \in 1..(Len(f) - i) |-> f[i + k].ev]
                   = online \o <<Ev("auth_ok", NoChat, NoMsg, U, {}, "")>>]_vars

\* a socket has authenticated as u2 while u1 was online: it got the snapshot
\* that lists u1 alone, then presence_online{u2}, then auth_ok{u2}
C27_Witness ==
  \E c \in Conns :
    /\ last = InFrame(c, Raw("auth", "tok_u2", Absent, Absent))
    /\ [i \in DOMAIN out |-> out[i].to] = <<c, 1, 2, c>>
    /\ out[1].ev = Ev("presence_state", NoChat, NoMsg, NoUser, {"u1"}, "")
    /\ out[4].ev = Ev("auth_ok", NoChat, NoMsg, "u2", {}, "")
    /\ \A i \in {2, 3} : out[i].ev = Ev("presence_online", NoChat, NoMsg, "u2", {}, "")

\* ------------------------------------------- membership and subscriptions
\* a chat enters a socket's subscription set only in the step that resumes
\* that socket's join_chat for it, with the chat stored and listing the user
\* the socket is bound to
C28_AddedByVerifiedJoin ==
  \A c \in Conns, x \in ChatIds :
    x \in subs'[c] /\ x \notin subs[c] =>
      /\ last' = In("resume", c, Raw("join_chat", Absent, x, Absent))
      /\ x \in DOMAIN members
      /\ userId[c] \in members[x]

\* typing frames, fresh single acks and publish calls go by the subscription
\* alone, whoever the subscribed socket is bound to by then
C28_NotCheckedAgain ==
  /\ \A c \in Conns :
       /\ FrameStep(c)
       /\ last'.raw \in WellFormed
       /\ userId[c] # NoUser
       /\ last'.raw.chatId \in subs[c]
       => /\ last'.raw.type \in {"typing_start", "typing_stop"} =>
               calls' = <<[op |-> "publishToChatExcept",
                           ev |-> Ev(last'.raw.type, last'.raw.chatId, NoMsg, userId[c], {}, "")]>>
          /\ (/\ last'.raw.type \in AckFrameTypes
              /\ <<last'.raw.chatId, last'.raw.messageId>> \notin Seen(Cur, c, KindOf(last'.raw.type)))
             => \E t \in tasks' \ tasks : t.c = c /\ t.stage = "write"
  /\ last'.kind = "api" /\ last'.raw.type = "message_sent" =>
       \A c \in Conns :
         rs[c] = "OPEN" /\ last'.raw.chatId \in subs[c] => Sent(out', c, calls'[1].ev) = 1

\* C28: every chat id in a socket's subscription set was put there by a
\* join_chat of that socket whose membership check succeeded when it was
\* processed; membership is not checked again by an ack, a typing frame or a
\* publish call.
C28_SubscriptionsVerifiedAtJoin == [][C28_AddedByVerifiedJoin /\ C28_NotCheckedAgain]_vars

\* a socket joined y as u2 and then authenticated as u1, whom y does not
\* list: it is still subscribed to y and has received a message_sent of y
C28_Witness ==
  \E c \in Conns :
    /\ last = In("api", 0, Raw("message_sent", Absent, "y", "m2"))
    /\ userId[c] = "u1" /\ "u1" \notin members["y"]
    /\ "y" \in subs[c] /\ rs[c] = "OPEN"
    /\ Sent(out, c, calls[1].ev) = 1

\* ------------------------------------------------ resend after a failure
\* C29: when a single ack of a subscribed socket has completed with a failed
\* write (the ack was handled but the store does not list the user for the
\* message), the same ack frame sent again on that socket leads to a new
\* write attempt.
C29_ResendAfterFailureRetries ==
  [][\A c \in Conns :
       AckFrameStep(c) =>
         LET x == last'.raw.chatId
             m == last'.raw.messageId
             kind == KindOf(last'.raw.type)
             k == <<c, kind, x, m>>
         IN (/\ x \in subs[c]
             /\ AckCount(k) >= 1 /\ ~Pending(k)
             /\ userId[c] \notin AckedBy(Cur, kind, m))
            => \E t \in tasks' \ tasks :
                 t.c = c /\ t.type = last'.raw.type /\ t.chat = x /\ t.msg = m]_vars

\* ------------------------------------- handlers that outlive their socket
\* the await of handler t ends when its socket is no longer open
ResumedAfterClose(t) ==
  /\ t \in tasks /\ t \notin tasks'
  /\ last'.kind = "resume" /\ last'.conn = t.c
  /\ rs[t.c] # "OPEN"

AckedNext(kind, m) == IF kind = "delivered" THEN deliveredTo'[m] ELSE readBy'[m]

\* the step handed event e once to every open subscriber of chat x, and to
\* no other socket: not to socket c
ReachedTheOthers(c, x, e) ==
  /\ DeliveredExactlyTo({d \in Conns : rs[d] = "OPEN" /\ d \in Idx(x)}, e)
  /\ Sent(out', c, e) = 0

\* C30: when a socket has closed or has been terminated while a handler of
\* it is suspended, the handler still completes: the write of a single ack
\* is made (and stored when the store accepts it) and its event is published
\* to the chat's open subscribers; a batched ack goes on from its query to
\* its batch write, the batch is stored and its event is published to the
\* chat's open subscribers; no frame is written to the socket that is gone.
C30_SuspendedEffectsComplete ==
  [][\A t \in tasks :
       ResumedAfterClose(t) =>
         LET kind == KindOf(t.type) IN
         /\ t.type \in AckFrameTypes =>
              LET e == Ev(IF kind = "delivered" THEN "message_delivered" ELSE "message_read",
                          t.chat, t.msg, userId[t.c], {}, "")
              IN /\ Len(calls') = 2
                 /\ calls'[1].op \in {"updateOne", "updateOneFailed"}
                 /\ calls'[1].op = "updateOne" => t.user \in AckedNext(kind, t.msg)
                 /\ calls'[2] = [op |-> "publishToChat", ev |-> e]
                 /\ ReachedTheOthers(t.c, t.chat, e)
         /\ t.type \in AckAllTypes /\ t.stage = "query" =>
              LET ids == NotYetAcked(kind, t.chat, t.user)
              IN ids # {} => \E w \in tasks' : w.c = t.c /\ w.stage = "write" /\ w.ids = ids
         /\ t.type \in AckAllTypes /\ t.stage = "write" =>
              LET e == Ev(IF kind = "delivered" THEN "messages_delivered" ELSE "messages_read",
                          t.chat, NoMsg, userId[t.c], t.ids, "")
              IN /\ \A m \in t.ids : t.user \in AckedNext(kind, m)
                 /\ calls'[Len(calls')] = [op |-> "publishToChat", ev |-> e]
                 /\ ReachedTheOthers(t.c, t.chat, e)]_vars

\* the batched ack of a socket of u1 that closed during the batch write has
\* been stored and its event has reached the other subscribed socket alone
C30_Witness ==
  \E c, d \in Conns :
    /\ c # d
    /\ last = In("resume", c, Raw("ack_delivered_all", Absent, "x", Absent))
    /\ rs[c] = "CLOSED" /\ rs[d] = "OPEN" /\ "x" \in subs[d]
    /\ deliveredTo["m1"] = {"u1"} /\ deliveredTo["m3"] = {"u1"}
    /\ Len(calls) = 2
    /\ out = <<[to |-> d, ev |-> calls[2].ev]>>
    /\ calls[2].ev.type = "messages_delivered"

\* ------------------------------------------------------------ publish calls
\* the subscribers of topic x in the index (none when x is not a key)
Subscribers(x) == IF x \in DOMAIN chatSubs THEN chatSubs[x] ELSE {}

\* C31: publish(chatId, event) hands the event once to every subscriber of
\* the chat whose transport is open and to nobody else, skips the subscribers
\* that are not open without pruning them (the index and every subscription
\* set are as before the call), and writes nothing when the chat has no
\* subscriber.
C31_PublishToOpenSubscribers ==
  [][\A i \in DOMAIN calls' :
       calls'[i].op = "publishToChat" =>
         LET e == calls'[i].ev IN
         /\ DeliveredExactlyTo({c \in Subscribers(e.chat) : rs[c] = "OPEN"}, e)
         /\ Subscribers(e.chat) = {} => out' = <<>>
         /\ chatSubs' = chatSubs
         /\ subs' = subs
         /\ rs' = rs]_vars

\* message_sent for x was published while one subscriber was open and the
\* other terminated but not yet closed: only the open one got it and both
\* are still in the index
C31_Witness ==
  \E c, d \in Conns :
    /\ last.kind = "api" /\ last.raw.type = "message_sent" /\ last.raw.chatId = "x"
    /\ rs[c] = "OPEN" /\ rs[d] = "CLOSING"
    /\ chatSubs = [k \in {"x"} |-> {c, d}]
    /\ out = <<[to |-> c, ev |-> calls[1].ev]>>

\* --------------------------------------------------------------- topic keys
C32_NoEmptyTopic == \A x \in DOMAIN chatSubs : chatSubs[x] # {}

C32_KeyWhileSubscribed ==
  \A x \in ChatIds : x \in DOMAIN chatSubs <=> \E c \in Conns : x \in subs[c]

\* socket c, the only subscriber of x, leaves x or has a close or error event
C32_LastGoes(c, x) ==
  /\ x \in DOMAIN chatSubs /\ chatSubs[x] = {c}
  /\ \/ FrameStep(c) /\ last'.raw.type = "leave_chat" /\ last'.raw.chatId = x
     \/ last'.kind \in {"close", "error"} /\ last'.conn = c

\* C32: the subscription index maps no chat id to an empty connection set: a
\* chat id is a key exactly while it is in the subscription set of at least
\* one socket, and the key is removed in the step in which its last
\* subscriber leaves or disconnects.
C32_NoEmptyConnectionSets ==
  /\ [](C32_NoEmptyTopic /\ C32_KeyWhileSubscribed)
  /\ [][\A c \in Conns, x \in ChatIds :
          C32_LastGoes(c, x) => x \notin DOMAIN chatSubs']_vars

\* socket c, which holds y, has just left x and was answered: x is no
\* longer a key of the index while y, with c as only subscriber, still is
C32_Witness ==
  \E c \in Conns :
    /\ last.kind = "frame" /\ last.conn = c
    /\ last.raw.type = "leave_chat" /\ last.raw.chatId = "x"
    /\ out = ReplyTo(c, "left_chat", "x", "")
    /\ subs[c] = {"y"}
    /\ chatSubs = [k \in {"y"} |-> {c}]

\* ------------------------------------------------- the two kinds of ack
\* the step handles a single-ack frame of this type or completes one
SingleAckStep(type) ==
  last'.kind \in {"frame", "resume"} /\ last'.raw.type = type

\* a fresh ack_read of a subscribed socket is taken up (marked and handed to
\* the store) whatever the socket's delivered set holds
C33_ReadNeedsNoDelivered ==
  \A c \in Conns :
    /\ FrameStep(c) /\ last'.raw.type = "ack_read"
    /\ last'.raw.chatId \in subs[c]
    /\ <<last'.raw.chatId, last'.raw.messageId>> \notin read[c]
    => /\ read' = [read EXCEPT ![c] = @ \cup {<<last'.raw.chatId, last'.raw.messageId>>}]
       /\ \E t \in tasks' \ tasks :
            /\ t.c = c /\ t.type = "ack_read"
            /\ t.chat = last'.raw.chatId /\ t.msg = last'.raw.messageId

C33_EachKindItsOwnRecords ==
  /\ SingleAckStep("ack_read") => UNCHANGED <<delivered, deliveredTo>>
  /\ SingleAckStep("ack_delivered") => UNCHANGED <<read, readBy>>
  /\ SingleAckStep("ack_read") \/ SingleAckStep("ack_delivered")
       => UNCHANGED <<subs, chatSubs, userId, rs, userConnCount>>

\* C33: read and delivered acks are independent: ack_read is processed
\* whether or not ack_delivered was ever sent for the message; handling
\* ack_read changes the read dedup set and the read-by record and nothing
\* of the delivered kind, handling ack_delivered changes the delivered dedup
\* set and the delivered-to record and nothing of the read kind.
C33_ReadAndDeliveredIndependent ==
  [][C33_ReadNeedsNoDelivered /\ C33_EachKindItsOwnRecords]_vars

\* the read ack of m1 has been written and published for a socket that
\* never sent a delivered ack: m1 is read by u1 and delivered to nobody
C33_Witness ==
  \E c \in Conns :
    /\ last.kind = "resume" /\ last.conn = c /\ last.raw.type = "ack_read"
    /\ last.raw.messageId = "m1"
    /\ read[c] = {<<"x", "m1">>} /\ delivered[c] = {}
    /\ readBy["m1"] = {"u1"} /\ deliveredTo["m1"] = {}
    /\ \A k \in AckKeys : k[2] = "delivered" => AckCount(k) = 0

\* ------------------------------------ subscriptions and the bound identity
\* C35: every chat in the subscription set of a socket is one the user now
\* bound to the socket is a member of: after an auth frame rebinds the
\* socket, it holds no subscription that was verified for the identity it
\* had before only.
C35_SubscriptionsOfBoundUser ==
  \A c \in Conns :
    userId[c] # NoUser => \A x \in subs[c] : userId[c] \in members[x]

\* -------------------------------------------- frames before authentication
\* C36: a socket that has no user bound before and after a step is written
\* no frame in it other than welcome and auth_error: it gets no
\* presence_online, presence_offline or presence_state (nor any other event).
C36_UnauthenticatedGetsNoEvents ==
  [][\A c \in Conns :
       userId[c] = NoUser /\ userId'[c] = NoUser =>
         \A i \in DOMAIN out' :
           out'[i].to = c => out'[i].ev.type \in {"welcome", "auth_error"}]_vars

\* ------------------------------------------- acks and the message's chat
\* C37: a single ack changes the delivered-to and read-by records only of a
\* message that belongs to the chat the frame names: the handling of
\* ack_delivered{x, m} or ack_read{x, m} for a message m of another chat
\* writes nothing to m and publishes nothing.
C37_AckOnlyMessagesOfTheChat ==
  [][\A type \in AckFrameTypes :
       SingleAckStep(type) =>
         /\ \A m \in MsgIds :
              MsgChat[m] # last'.raw.chatId =>
                deliveredTo'[m] = deliveredTo[m] /\ readBy'[m] = readBy[m]
         /\ MsgChat[last'.raw.messageId] # last'.raw.chatId => out' = <<>>]_vars

\* --------------------------------------------- batched acks side by side
\* C38: for one user, chat and kind of ack a message id is listed in at most
\* one batched event, however the queries and writes of two ack_*_all frames
\* interleave. Where batched acks are the only writers of the records, a
\* message the store lists as acked by the user was listed in an event
\* before: no batched event lists such a message again.
C38_EachMessageInOneBatch ==
  [][\A t \in tasks :
       AckAllStep(t, "resume") /\ t.stage = "write" =>
         \A m \in t.ids : t.user \notin AckedBy(Cur, KindOf(t.type), m)]_vars

\* -------------------------------------------- a message and its chat update
\* the positions of the log at which an event of this type for message m
\* was handed out
Logged(type, m) ==
  {i \in DOMAIN pubs : pubs[i].ev.type = type /\ pubs[i].ev.msg = m}

\* the positions of the log that socket c has received
Received(c) == {inbox[c][i] : i \in DOMAIN inbox[c]}

\* the log holds one send of message m (a message is sent once)
SentOnce(m) == Cardinality(Logged("message_sent", m)) = 1

\* C39: a socket that receives both message_sent for a message and the
\* chat_updated that carries it as lastMessage receives message_sent first;
\* and a subscribed socket that receives message_sent and chat_updated of
\* two messages sent one after the other to the same chat receives the two
\* chat_updated events in the order in which the messages were sent.
C39_ChatUpdatedInSendOrder ==
  \A c \in Conns, m \in MsgIds :
    SentOnce(m) =>
      /\ \A i \in Logged("message_sent", m) \cap Received(c),
            j \in Logged("chat_updated", m) \cap Received(c) : i < j
      /\ \A n \in MsgIds \ {m} :
           SentOnce(n) /\ MsgChat[m] = MsgChat[n] =>
             \A i \in Logged("message_sent", m) \cap Received(c),
                j \in Logged("message_sent", n) \cap Received(c),
                p \in Logged("chat_updated", m) \cap Received(c),
                q \in Logged("chat_updated", n) \cap Received(c) :
               i < j => p < q

\* ------------------------------------------- frames of one socket, in order
\* the suspended join t of a socket was followed by a leave_chat frame of the
\* same socket for the same chat, handled in the step before this one, and
\* this step ends the join's await: both handlers have then finished
JoinEndsAfterLeave(t) ==
  /\ t.type = "join_chat"
  /\ last = In("frame", t.c, Raw("leave_chat", Absent, t.chat, Absent))
  /\ last'.kind = "resume" /\ last'.conn = t.c /\ last'.raw.type = "join_chat"
  /\ t \notin tasks'

\* C34: the frames of one socket take effect in the order in which they
\* arrive: when join_chat{x} was followed by leave_chat{x} and both handlers
\* have finished, the socket is not subscribed to x and no joined_chat is
\* written to it after the left_chat.
C34_FramesInArrivalOrder ==
  [][\A t \in tasks :
       JoinEndsAfterLeave(t) =>
         /\ t.chat \notin subs'[t.c]
         /\ \A i \in DOMAIN out' :
              ~(out'[i].to = t.c /\ out'[i].ev.type = "joined_chat")]_vars

=============================================================================
